---- MODULE Spec2Model ----
(***************************************************************************)
(* A model of the muaddib scanner core: the vulnerability database        *)
(* (package vuln), the manifest / lockfile parsers and the match engine   *)
(* (package scanner).                                                     *)
(*                                                                         *)
(* Go strings are modelled as sequences of one-character strings, so that *)
(* concatenation, trimming, splitting and prefix tests are computed the   *)
(* way the code computes them.  A Go map that the code ranges over is     *)
(* modelled either as a TLA+ function (when it is only looked up) or as a *)
(* sequence of <<key, value>> pairs with distinct keys, the order of the  *)
(* sequence being the (arbitrary) iteration order of that run.            *)
(***************************************************************************)
EXTENDS Integers, Sequences, FiniteSets, TLC

VARIABLES
    \* --- VulnDB under Add / Merge ---
    db,         \* the receiver *VulnDB
    other,      \* a second *VulnDB, the argument of Merge
    added,      \* history: the <<name, version>> pairs inserted into db
    lastOp,     \* history: the last VulnDB operation and what it saw
    \* --- parseCSV ---
    csvPc,        \* where parseCSV stands: header, read, warn, process, done (idle: not running)
    csvInput,     \* what the csv.Reader has not yet returned
    csvHeader,    \* the header record
    nameIdx,      \* column of the package name (0-based, -1: not yet found)
    versionIdx,   \* column of the version cell (0-based, -1: not yet found)
    usedFallback, \* a role was taken from its positional column
    allRecords,   \* the data records read
    recI,         \* number of records of allRecords already processed
    csvDb,        \* the database under construction
    csvErr,       \* the error parseCSV returns (Nil: none)
    warnings,     \* what the warning sink has received
    \* --- LoadFromMultipleURLs ---
    loadPc,       \* loop, done (idle: not running)
    urls,         \* the sources, each with what LoadFromURL will return for it
    loadI,        \* number of sources already processed
    loadAcc,      \* the locals db, errors, successCount
    loadResult,   \* the returned (db, error) pair
    \* --- the parsers, each run on one document ---
    pKind,        \* which parser the document is for (idle: none)
    pDoc,         \* the decoded document
    pIncludeDev,  \* the includeDev argument
    pOut,         \* the returned (packages, error) pair; Nil before the call
    \* --- Scanner.ScanFiles ---
    scanner,      \* the Scanner: db and includeDev
    files,        \* the files argument
    result,       \* the returned RepoScanResult; Nil before the call
    \* --- ParseYarnLock, line by line ---
    yarnPc,       \* idle, check (before the format test), scan, done
    yarnContent,  \* the lines of the content
    yarnI,        \* how many lines the loop has consumed
    yarnP,        \* the yarnLockParser
    yarnOut,      \* the returned (packages, error) pair; Nil before the return
    \* --- the repository loop of run ---
    runPc,        \* idle, loop (at the head of an iteration), scan (inside one), summary, done
    repos,        \* the repositories listed
    runI,         \* number of repositories the loop is done with
    results,      \* the local results
    repoFiles,    \* the files FindPackageFiles returned for the repository in progress
    cancelled,    \* ctx is cancelled (ctx.Done() is closed)
    observed,     \* the loop has taken the ctx.Done() case
    summary       \* what ReportSummary was given; Nil before the call

dbVars == <<db, other, added, lastOp>>

csvVars == <<csvPc, csvInput, csvHeader, nameIdx, versionIdx, usedFallback,
             allRecords, recI, csvDb, csvErr, warnings>>

loadVars == <<loadPc, urls, loadI, loadAcc, loadResult>>

parseVars == <<pKind, pDoc, pIncludeDev, pOut>>

scanVars == <<scanner, files, result>>

yarnVars == <<yarnPc, yarnContent, yarnI, yarnP, yarnOut>>

runVars == <<runPc, repos, runI, results, repoFiles, cancelled, observed, summary>>

vars == <<dbVars, csvVars, loadVars, parseVars, scanVars, yarnVars, runVars>>

\* What the actions of one part leave unchanged: the other parts.
notDbVars == <<csvVars, loadVars, parseVars, scanVars, yarnVars, runVars>>
notCsvVars == <<dbVars, loadVars, parseVars, scanVars, yarnVars, runVars>>
notLoadVars == <<dbVars, csvVars, parseVars, scanVars, yarnVars, runVars>>
notParseVars == <<dbVars, csvVars, loadVars, scanVars, yarnVars, runVars>>
notScanVars == <<dbVars, csvVars, loadVars, parseVars, yarnVars, runVars>>
notYarnVars == <<dbVars, csvVars, loadVars, parseVars, scanVars, runVars>>
notRunVars == <<dbVars, csvVars, loadVars, parseVars, scanVars, yarnVars>>

(***************************************************************************)
(* Go's strings package, on sequences of characters.                      *)
(***************************************************************************)
\* Go's nil pointer; a record, so that it compares with entries and databases.
Nil == [nil |-> TRUE]

EmptyStr == <<>>

HasPrefix(s, p) == Len(p) <= Len(s) /\ SubSeq(s, 1, Len(p)) = p

HasSuffix(s, p) == Len(p) <= Len(s) /\ SubSeq(s, Len(s) - Len(p) + 1, Len(s)) = p

TrimPrefix(s, p) == IF HasPrefix(s, p) THEN SubSeq(s, Len(p) + 1, Len(s)) ELSE s

TrimSuffix(s, p) == IF HasSuffix(s, p) THEN SubSeq(s, 1, Len(s) - Len(p)) ELSE s

\* strings.Index: the 0-based position of the first occurrence, or -1.
Index(s, sub) ==
    LET hits == {i \in 0..(Len(s) - Len(sub)) : SubSeq(s, i + 1, i + Len(sub)) = sub}
    IN  IF hits = {} THEN -1 ELSE CHOOSE i \in hits : \A j \in hits : i <= j

\* strings.LastIndex: the 0-based position of the last occurrence, or -1.
LastIndex(s, sub) ==
    LET hits == {i \in 0..(Len(s) - Len(sub)) : SubSeq(s, i + 1, i + Len(sub)) = sub}
    IN  IF hits = {} THEN -1 ELSE CHOOSE i \in hits : \A j \in hits : i >= j

Contains(s, sub) == Index(s, sub) # -1

IsSpace(c) == c \in {" ", "\t"}

TrimSpace(s) ==
    LET keep == {i \in 1..Len(s) : ~IsSpace(s[i])}
    IN  IF keep = {} THEN EmptyStr
        ELSE SubSeq(s, CHOOSE i \in keep : \A j \in keep : i <= j,
                       CHOOSE i \in keep : \A j \in keep : i >= j)

\* strings.Split with a non-empty separator.
RECURSIVE Split(_, _)
Split(s, sep) ==
    LET i == Index(s, sep)
    IN  IF i = -1 THEN <<s>>
        ELSE <<SubSeq(s, 1, i)>> \o Split(SubSeq(s, i + Len(sep) + 1, Len(s)), sep)

\* strings.SplitN with n > 0: at most n pieces, the last one unsplit.
RECURSIVE SplitN(_, _, _)
SplitN(s, sep, n) ==
    LET i == Index(s, sep)
    IN  IF n <= 1 \/ i = -1 THEN <<s>>
        ELSE <<SubSeq(s, 1, i)>> \o SplitN(SubSeq(s, i + Len(sep) + 1, Len(s)), sep, n - 1)

\* The iteration orders of a Go map with key set S.
Orders(S) ==
    {o \in [1..Cardinality(S) -> S] : \A i, j \in 1..Cardinality(S) : i # j => o[i] # o[j]}

(***************************************************************************)
(* package vuln: VulnEntry, VulnDB, Add, Check, Merge.                     *)
(***************************************************************************)
VulnEntry(name, version, original) ==
    [PackageName |-> name, PackageVersion |-> version, OriginalVersion |-> original]

NewVulnDB == [entries |-> <<>>, byName |-> <<>>, totalEntries |-> 0]

\* The index key the code builds: name + "@" + version.
EntryKey(name, version) == name \o <<"@">> \o version

\* A wrong Add: the processed counter moves only when the index grows.
AddCountsUniqueOnly(d, entry) ==
    LET key == EntryKey(entry.PackageName, entry.PackageVersion)
    IN  IF key \in DOMAIN d.entries THEN d
        ELSE [entries |-> (key :> entry) @@ d.entries,
              byName |-> (entry.PackageName :> <<entry>>) @@ d.byName,
              totalEntries |-> d.totalEntries + 1]

Add(d, entry) ==
    LET key == EntryKey(entry.PackageName, entry.PackageVersion)
        n   == entry.PackageName
    IN  IF key \in DOMAIN d.entries
        THEN [d EXCEPT !.totalEntries = @ + 1]
        ELSE [entries |-> (key :> entry) @@ d.entries,
              byName |-> IF n \in DOMAIN d.byName
                         THEN [d.byName EXCEPT ![n] = Append(@, entry)]
                         ELSE (n :> <<entry>>) @@ d.byName,
              totalEntries |-> d.totalEntries + 1]

Check(d, name, version) ==
    IF name = EmptyStr \/ version = EmptyStr THEN Nil
    ELSE LET key == EntryKey(name, version)
         IN  IF key \in DOMAIN d.entries THEN d.entries[key] ELSE Nil

Size(d) == Cardinality(DOMAIN d.entries)

UniquePackages(d) == Cardinality(DOMAIN d.byName)

TotalEntries(d) == d.totalEntries

\* Add every entry of the sequence es, in order.
RECURSIVE AddAll(_, _)
AddAll(d, es) == IF es = <<>> THEN d ELSE AddAll(Add(d, Head(es)), Tail(es))

\* Merge, with ord the order in which the range over o.entries visits its keys.
Merge(d, o, ord) ==
    IF o = Nil THEN d ELSE AddAll(d, [i \in 1..Len(ord) |-> o.entries[ord[i]]])

\* The state of the parts of the program a specification does not run.
IdleDB ==
    /\ db = NewVulnDB
    /\ other = NewVulnDB
    /\ added = {}
    /\ lastOp = [op |-> "none"]

IdleParse ==
    /\ pKind = "idle"
    /\ pDoc = Nil
    /\ pIncludeDev = FALSE
    /\ pOut = Nil

IdleScan ==
    /\ scanner = Nil
    /\ files = <<>>
    /\ result = Nil

IdleYarn ==
    /\ yarnPc = "idle"
    /\ yarnContent = <<>>
    /\ yarnI = 0
    /\ yarnP = Nil
    /\ yarnOut = Nil

IdleRun ==
    /\ runPc = "idle"
    /\ repos = <<>>
    /\ runI = 0
    /\ results = <<>>
    /\ repoFiles = Nil
    /\ cancelled = FALSE
    /\ observed = FALSE
    /\ summary = Nil

IdleLoad ==
    /\ loadPc = "idle"
    /\ urls = <<>>
    /\ loadI = 0
    /\ loadAcc = [db |-> NewVulnDB, errors |-> <<>>, successCount |-> 0]
    /\ loadResult = [db |-> Nil, err |-> Nil]

(***************************************************************************)
(* package vuln: parseVersionList, parseNpmVersionSpec, parseCSV.          *)
(***************************************************************************)
\* The pieces of parts, each mapped by Op, without the empty results.
NonEmptyMapped(parts, Op(_)) ==
    SelectSeq([i \in 1..Len(parts) |-> Op(parts[i])], LAMBDA x : x # EmptyStr)

\* One "||" alternative: trimmed, a leading "=" removed, trimmed again.
NpmPart(part) ==
    LET t == TrimSpace(part)
    IN  IF HasPrefix(t, <<"=">>) THEN TrimSpace(TrimPrefix(t, <<"=">>)) ELSE t

parseNpmVersionSpec(versionSpec) ==
    NonEmptyMapped(Split(versionSpec, <<"|", "|">>), NpmPart)

parseVersionList(versionField) ==
    IF Contains(versionField, <<"=", " ">>) \/ HasPrefix(versionField, <<"=">>)
    THEN parseNpmVersionSpec(versionField)
    ELSE LET versions == NonEmptyMapped(Split(versionField, <<",">>), TrimSpace)
         IN  IF Len(versions) = 0 /\ versionField # EmptyStr
             THEN <<versionField>>
             ELSE versions

\* ToLower(TrimSpace(col)) of a header cell; header cells are whole words here.
LowerTrim(col) ==
    CASE col = "Package" -> "package"
      [] col = "Version" -> "version"
      [] col = " NAME " -> "name"
      [] OTHER -> col

NameSpellings == {"package_name", "packagename", "name", "package"}
VersionSpellings == {"package_versions", "package_version", "packageversion", "version", "versions"}

\* The header loop: the last column whose spelling is accepted, 0-based, or -1.
MatchColumn(header, spellings) ==
    LET hits == {i \in 1..Len(header) : LowerTrim(header[i]) \in spellings}
    IN  IF hits = {} THEN -1 ELSE (CHOOSE i \in hits : \A j \in hits : i >= j) - 1

\* A wrong record step: the name is trimmed but an empty one is not skipped.
ProcessRecordKeepsEmptyName(d, record, nIdx, vIdx) ==
    IF nIdx >= Len(record) THEN d
    ELSE LET packageName  == TrimSpace(record[nIdx + 1])
             versionField == IF vIdx >= 0 /\ vIdx < Len(record)
                             THEN TrimSpace(record[vIdx + 1]) ELSE EmptyStr
             versions     == parseVersionList(versionField)
         IN  IF versionField = EmptyStr THEN d
             ELSE AddAll(d, [i \in 1..Len(versions) |->
                                VulnEntry(packageName, versions[i], versionField)])

\* One round of the "Process all records" loop on database d.
ProcessRecord(d, record, nIdx, vIdx) ==
    IF nIdx >= Len(record) THEN d
    ELSE LET packageName  == TrimSpace(record[nIdx + 1])
             versionField == IF vIdx >= 0 /\ vIdx < Len(record)
                             THEN TrimSpace(record[vIdx + 1]) ELSE EmptyStr
             versions     == parseVersionList(versionField)
         IN  IF packageName = EmptyStr \/ versionField = EmptyStr THEN d
             ELSE AddAll(d, [i \in 1..Len(versions) |->
                                VulnEntry(packageName, versions[i], versionField)])

\* The sample lines of the fallback warning.
WarnSamples(records, nIdx, vIdx) ==
    LET sampleCount == IF Len(records) < 3 THEN Len(records) ELSE 3
        first == SubSeq(records, 1, sampleCount)
        long  == SelectSeq(first, LAMBDA rec : Len(rec) > 1)
    IN  [i \in 1..Len(long) |-> <<long[i][nIdx + 1], long[i][vIdx + 1]>>]

IdleCSV ==
    /\ csvPc = "idle"
    /\ csvInput = <<>>
    /\ csvHeader = <<>>
    /\ nameIdx = -1
    /\ versionIdx = -1
    /\ usedFallback = FALSE
    /\ allRecords = <<>>
    /\ recI = 0
    /\ csvDb = NewVulnDB
    /\ csvErr = Nil
    /\ warnings = <<>>

\* parseCSV starts on the reads `input`: records, lines the reader rejects, or
\* a failure of the underlying io.Reader.
StartCSV(input) ==
    /\ csvPc = "header"
    /\ csvInput = input
    /\ csvHeader = <<>>
    /\ nameIdx = -1
    /\ versionIdx = -1
    /\ usedFallback = FALSE
    /\ allRecords = <<>>
    /\ recI = 0
    /\ csvDb = NewVulnDB
    /\ csvErr = Nil
    /\ warnings = <<>>

Rec(fields) == [kind |-> "rec", fields |-> fields]
BadLine == [kind |-> "bad"]

\* The underlying io.Reader fails (a response body that breaks off): Read
\* returns its error, consumes nothing, and the next Read meets it again.
\* calls is the parity of the number of Reads that have met it.
ReadFailure == [kind |-> "ioerr", calls |-> 0]

\* reader.Read() for the header: end of input and a rejected line are errors,
\* and so is a header of fewer than two columns.
CsvReadHeader ==
    /\ csvPc = "header"
    /\ IF csvInput = <<>> \/ Head(csvInput).kind # "rec"
       THEN /\ csvErr' = [msg |-> "failed to read CSV header"]
            /\ csvPc' = "done"
            /\ UNCHANGED <<csvInput, csvHeader, nameIdx, versionIdx, usedFallback>>
       ELSE LET header == Head(csvInput).fields
                n      == MatchColumn(header, NameSpellings)
                v      == MatchColumn(header, VersionSpellings)
            IN  /\ csvInput' = Tail(csvInput)
                /\ csvHeader' = header
                /\ IF Len(header) < 2
                   THEN /\ csvErr' = [msg |-> "CSV must have at least 2 columns"]
                        /\ csvPc' = "done"
                        /\ UNCHANGED <<nameIdx, versionIdx, usedFallback>>
                   ELSE /\ nameIdx' = IF n = -1 THEN 0 ELSE n
                        /\ versionIdx' = IF v = -1 THEN 1 ELSE v
                        /\ usedFallback' = (n = -1 \/ v = -1)
                        /\ csvPc' = "read"
                        /\ UNCHANGED csvErr
    /\ UNCHANGED <<allRecords, recI, csvDb, warnings, notCsvVars>>

\* reader.Read() in the record loop: a rejected line, or a record whose field
\* count differs from the header's (the reader's FieldsPerRecord check), is an
\* error and is skipped; io.EOF ends the loop.
CsvReadRecord ==
    /\ csvPc = "read"
    /\ csvInput # <<>>
    /\ csvInput' = IF Head(csvInput).kind = "ioerr"
                   THEN <<[Head(csvInput) EXCEPT !.calls = 1 - @]>> \o Tail(csvInput)
                   ELSE Tail(csvInput)
    /\ allRecords' = IF /\ Head(csvInput).kind = "rec"
                        /\ Len(Head(csvInput).fields) = Len(csvHeader)
                     THEN Append(allRecords, Head(csvInput).fields)
                     ELSE allRecords
    /\ UNCHANGED <<csvPc, csvHeader, nameIdx, versionIdx, usedFallback, recI, csvDb,
                   csvErr, warnings, notCsvVars>>

CsvReadEOF ==
    /\ csvPc = "read"
    /\ csvInput = <<>>
    /\ csvPc' = "warn"
    /\ UNCHANGED <<csvInput, csvHeader, nameIdx, versionIdx, usedFallback, allRecords,
                   recI, csvDb, csvErr, warnings, notCsvVars>>

\* "Issue warning with sample data if we used fallback".
CsvWarn ==
    /\ csvPc = "warn"
    /\ warnings' = IF usedFallback /\ Len(allRecords) > 0
                   THEN Append(warnings, [header |-> csvHeader,
                                          samples |-> WarnSamples(allRecords, nameIdx, versionIdx)])
                   ELSE warnings
    /\ csvPc' = "process"
    /\ UNCHANGED <<csvInput, csvHeader, nameIdx, versionIdx, usedFallback, allRecords,
                   recI, csvDb, csvErr, notCsvVars>>

CsvProcessRecord ==
    /\ csvPc = "process"
    /\ recI < Len(allRecords)
    /\ csvDb' = ProcessRecord(csvDb, allRecords[recI + 1], nameIdx, versionIdx)
    /\ recI' = recI + 1
    /\ UNCHANGED <<csvPc, csvInput, csvHeader, nameIdx, versionIdx, usedFallback,
                   allRecords, csvErr, warnings, notCsvVars>>

CsvReturn ==
    /\ csvPc = "process"
    /\ recI = Len(allRecords)
    /\ csvPc' = "done"
    /\ UNCHANGED <<csvInput, csvHeader, nameIdx, versionIdx, usedFallback, allRecords,
                   recI, csvDb, csvErr, warnings, notCsvVars>>

NextCSV ==
    \/ CsvReadHeader
    \/ CsvReadRecord
    \/ CsvReadEOF
    \/ CsvWarn
    \/ CsvProcessRecord
    \/ CsvReturn


(***************************************************************************)
(* SpecCSV: parseCSV on a header and up to MaxRows reads.                  *)
(* SpecRow: parseCSV on a recognized header and one data row whose version *)
(* cell ranges over every string of up to MaxCellLen characters.           *)
(***************************************************************************)
MaxRows == 2
MaxCellLen == 3

\* All character strings over alphabet of length lo..hi.
StringsOver(alphabet, lo, hi) == UNION {[1..n -> alphabet] : n \in lo..hi}

CSVHeaders ==
    {<<"package_name", "package_versions">>, <<"Package", "Version">>,
     <<"Version", " NAME ">>, <<"foo", "bar">>, <<"name", "bar">>, <<"only">>}

CSVNames == {<<"p">>, <<" ", "q">>, EmptyStr}
CSVCells == {<<"1">>, <<"2">>, <<"1", ",", " ", "2">>,
             <<"=", " ", "1", " ", "|", "|", " ", "=", " ", "2">>, <<" ">>}

CSVReads ==
    {Rec(<<n, c>>) : n \in CSVNames, c \in CSVCells}
        \cup {Rec(<<c, n>>) : n \in {<<"p">>}, c \in {<<"1">>, <<"2">>}}
        \cup {Rec(<<<<"p">>>>), Rec(<<<<"p">>, <<"1">>, <<"x">>>>), BadLine}

CellAlphabet == {"1", "2", "=", " ", ",", "|"}

InitCSV ==
    /\ \E h \in CSVHeaders, rows \in StringsOver(CSVReads, 0, MaxRows) :
            StartCSV(<<Rec(h)>> \o rows)
    /\ IdleDB
    /\ IdleLoad
    /\ IdleParse
    /\ IdleScan
    /\ IdleYarn
    /\ IdleRun

SpecCSV == InitCSV /\ [][NextCSV]_vars

InitRow ==
    /\ \E c \in StringsOver(CellAlphabet, 1, MaxCellLen) :
            StartCSV(<<Rec(<<"package_name", "package_versions">>), Rec(<<<<"p">>, c>>)>>)
    /\ IdleDB
    /\ IdleLoad
    /\ IdleParse
    /\ IdleScan
    /\ IdleYarn
    /\ IdleRun

SpecRow == InitRow /\ [][NextCSV]_vars

\* The name and the trimmed version cell of a data record.
RowName(record) == TrimSpace(record[nameIdx + 1])
RowCell(record) == TrimSpace(record[versionIdx + 1])

\* A data row parseCSV accepts: non-empty name and non-empty version cell.
AcceptedRow(record) == RowName(record) # EmptyStr /\ RowCell(record) # EmptyStr

SeqToSet(q) == {q[i] : i \in 1..Len(q)}

\* expand(c) as the specification words it: an OR-spec (every "||" alternative
\* is "= X") is split on "||" and each "=" stripped; any other cell is split on
\* "," and each piece trimmed; if that yields no version, the raw cell.
IsOrSpec(c) == \A i \in 1..Len(Split(c, <<"|", "|">>)) :
                    HasPrefix(TrimSpace(Split(c, <<"|", "|">>)[i]), <<"=">>)

SpecExpand(c) ==
    LET pieces == IF IsOrSpec(c)
                  THEN {TrimSpace(TrimPrefix(TrimSpace(x), <<"=">>)) : x \in SeqToSet(Split(c, <<"|", "|">>))}
                  ELSE {TrimSpace(x) : x \in SeqToSet(Split(c, <<",">>))}
        found  == pieces \ {EmptyStr}
    IN  IF found = {} THEN {c} ELSE found

\* The versions v for which Check(n, v) succeeds, probed over every version the
\* database holds and every version the specification expects.
VersionsFound(d, n, expected) ==
    {v \in expected \cup {d.entries[k].PackageVersion : k \in DOMAIN d.entries} :
        Check(d, n, v) # Nil}

\* C5: after loading one accepted row (name n, cell c) alone, the versions v for
\* which Check(n, v) succeeds are exactly expand(c), and there is at least one.
C5_RowExpandsToSpecVersions ==
    (csvPc = "done" /\ csvErr = Nil /\ Len(allRecords) = 1 /\ AcceptedRow(allRecords[1])) =>
        LET n == RowName(allRecords[1])
            c == RowCell(allRecords[1])
        IN  /\ VersionsFound(csvDb, n, SpecExpand(c)) = SpecExpand(c)
            /\ Size(csvDb) >= 1

\* The number of accepted data rows among the records read.
AcceptedRows == Cardinality({i \in 1..Len(allRecords) : AcceptedRow(allRecords[i])})

\* C6: after loading a CSV with R accepted data rows, TotalEntries() = R, whatever
\* the rows duplicate and however many versions each cell expands to.
C6_TotalCountsRows ==
    (csvPc = "done" /\ csvErr = Nil) => TotalEntries(csvDb) = AcceptedRows

\* parseCSV has returned after reading a header of at least two columns.
CsvParsed == csvPc = "done" /\ Len(csvHeader) >= 2

NameUnmatched == MatchColumn(csvHeader, NameSpellings) = -1

VersionUnmatched == MatchColumn(csvHeader, VersionSpellings) = -1

\* C17: when no header column has an accepted spelling for the name role or
\* for the version role, parseCSV takes that role from column 0 or 1, emits at
\* least one warning and returns a database without error; when both roles
\* are matched it emits no warning.
C17_FallbackWarns ==
    CsvParsed =>
        /\ NameUnmatched => nameIdx = 0
        /\ VersionUnmatched => versionIdx = 1
        /\ csvErr = Nil
        /\ (NameUnmatched \/ VersionUnmatched) => Len(warnings) >= 1
        /\ (~NameUnmatched /\ ~VersionUnmatched) => warnings = <<>>

\* Every entry of the database being built has a trimmed, non-empty name and
\* a non-empty version.
EntriesWellFormed ==
    \A k \in DOMAIN csvDb.entries :
        /\ csvDb.entries[k].PackageName # EmptyStr
        /\ TrimSpace(csvDb.entries[k].PackageName) = csvDb.entries[k].PackageName
        /\ csvDb.entries[k].PackageVersion # EmptyStr

\* The step reads a row too short to hold the name column.
StepReadsShortRow ==
    /\ csvPc = "read"
    /\ csvInput # <<>>
    /\ csvInput' = Tail(csvInput)
    /\ Head(csvInput).kind = "rec"
    /\ Len(Head(csvInput).fields) <= nameIdx

\* The step processes a row whose name cell or version cell is empty after
\* trimming.
StepProcessesEmptyRow ==
    /\ csvPc = "process"
    /\ recI' = recI + 1
    /\ ~AcceptedRow(allRecords[recI + 1])

\* C18: every entry parseCSV puts in the database has a non-empty trimmed
\* PackageName and a non-empty PackageVersion, and a row that is too short for
\* the name column or whose name or version cell is empty after trimming
\* leaves Size() and TotalEntries() as they were.
C18_RowsNeedNameAndVersion ==
    /\ []EntriesWellFormed
    /\ [][(StepReadsShortRow \/ StepProcessesEmptyRow) =>
            /\ allRecords' = allRecords \/ StepProcessesEmptyRow
            /\ Size(csvDb') = Size(csvDb)
            /\ TotalEntries(csvDb') = TotalEntries(csvDb)]_vars

C18_Witness ==
    /\ csvPc = "done"
    /\ csvErr = Nil
    /\ Len(allRecords) = 2
    /\ ~AcceptedRow(allRecords[1])
    /\ AcceptedRow(allRecords[2])
    /\ Size(csvDb) >= 1

(***************************************************************************)
(* SpecOrigin: parseCSV on a recognized header and up to MaxRows data rows *)
(* that repeat names and versions with different cells; names and versions *)
(* may hold the "@" that Add and Check join the key with.                  *)
(***************************************************************************)
OriginNames == {<<"p">>, <<"p", "@", "1">>}
OriginCells == {<<"1">>, <<"2">>, <<"1", ",", "2">>, <<"=", "1", "|", "|", "=", "2">>,
                <<"1", "@", "2">>}
OriginReads == {Rec(<<n, c>>) : n \in OriginNames, c \in OriginCells}

InitOrigin ==
    /\ \E rows \in StringsOver(OriginReads, 0, MaxRows) :
            StartCSV(<<Rec(<<"package_name", "package_versions">>)>> \o rows)
    /\ IdleDB
    /\ IdleLoad
    /\ IdleParse
    /\ IdleScan
    /\ IdleYarn
    /\ IdleRun

SpecOrigin == InitOrigin /\ [][NextCSV]_vars

\* The names and versions Check is probed with.
ProbeNames == OriginNames
ProbeVersions == {<<"1">>, <<"2">>, <<"1", "@", "2">>}

\* Row i has been processed, was accepted, names n and expands to v.
RowYields(i, n, v) ==
    /\ i \in 1..recI
    /\ AcceptedRow(allRecords[i])
    /\ RowName(allRecords[i]) = n
    /\ v \in SeqToSet(parseVersionList(RowCell(allRecords[i])))

\* C19: every entry Check(n, v) returns has PackageVersion v and the
\* OriginalVersion of the first loaded row for name n whose expansion held v:
\* the whole trimmed cell of that row, whatever later rows say.
C19_FirstRowKeepsOriginal ==
    csvPc \in {"process", "done"} =>
        \A n \in ProbeNames, v \in ProbeVersions :
            LET e == Check(csvDb, n, v)
            IN  e # Nil =>
                    /\ e.PackageVersion = v
                    /\ \E i \in 1..recI :
                          /\ RowYields(i, n, v)
                          /\ \A j \in 1..(i - 1) : ~RowYields(j, n, v)
                          /\ e.OriginalVersion = RowCell(allRecords[i])

(***************************************************************************)
(* SpecRead: parseCSV on a reader whose reads are records, rejected lines  *)
(* or a failure of the underlying io.Reader; parseCSV keeps running.       *)
(***************************************************************************)
ReadResults ==
    {Rec(<<<<"p">>, <<"1">>>>), Rec(<<<<"q">>, <<"1", ",", "2">>>>), Rec(<<<<"p">>>>),
     BadLine, ReadFailure}

InitRead ==
    /\ \E h \in {Rec(<<"package_name", "package_versions">>), Rec(<<"foo", "bar">>),
                 BadLine, ReadFailure},
          rows \in StringsOver(ReadResults, 0, MaxRows) :
            StartCSV(<<h>> \o rows)
    /\ IdleDB
    /\ IdleLoad
    /\ IdleParse
    /\ IdleScan
    /\ IdleYarn
    /\ IdleRun

SpecRead == InitRead /\ [][NextCSV]_vars /\ WF_vars(NextCSV)

\* C24: parseCSV terminates on every input, also when a read returns an error
\* other than end-of-input.
C24_ParseCSVTerminates == <>(csvPc = "done")

(***************************************************************************)
(* package vuln: LoadFromURL, LoadFromMultipleURLs.                        *)
(***************************************************************************)
\* LoadFromURL on a source: the fetch fails, the status is not 200, or the body
\* goes to parseCSV, which fails or returns a database.
LoadFromURL(source) ==
    CASE source.fetch = "error"  -> [db |-> Nil, err |-> [msg |-> "failed to fetch vulnerability database"]]
      [] source.fetch = "status" -> [db |-> Nil, err |-> [msg |-> "failed to fetch vulnerability database: HTTP status"]]
      [] source.parsed = Nil     -> [db |-> Nil, err |-> [msg |-> "failed to read CSV header"]]
      [] OTHER                   -> [db |-> source.parsed, err |-> Nil]

\* One round of the loop over urls: url number i, with ord the order of the
\* Merge's range over the source database.
LoadStep(acc, i, source, ord) ==
    LET got == LoadFromURL(source)
    IN  IF got.err # Nil
        THEN [acc EXCEPT !.errors = Append(@, <<i, got.err>>)]
        ELSE [acc EXCEPT !.db = Merge(@, got.db, ord), !.successCount = @ + 1]

\* A wrong ending: the load fails as soon as one source failed.
LoadFinishFailsOnAnyError(acc) ==
    IF acc.errors # <<>>
    THEN [db |-> Nil, err |-> [msg |-> "failed to load any IOC sources", errors |-> acc.errors]]
    ELSE [db |-> acc.db, err |-> Nil]

\* What follows the loop.
LoadFinish(acc) ==
    IF acc.successCount = 0
    THEN [db |-> Nil, err |-> [msg |-> "failed to load any IOC sources", errors |-> acc.errors]]
    ELSE [db |-> acc.db, err |-> Nil]

(***************************************************************************)
(* SpecLoad: LoadFromMultipleURLs on up to MaxURLs sources.                *)
(***************************************************************************)
MaxURLs == 2
MaxSourceRows == 2

LoadEntries ==
    {VulnEntry(<<"p">>, <<"1">>, <<"1">>), VulnEntry(<<"p">>, <<"1">>, <<"=", "1">>),
     VulnEntry(<<"q">>, <<"2">>, <<"2">>)}

SourceDBs == {AddAll(NewVulnDB, es) : es \in StringsOver(LoadEntries, 0, MaxSourceRows)}

Sources ==
    {[fetch |-> "error", parsed |-> Nil], [fetch |-> "status", parsed |-> Nil]}
        \cup {[fetch |-> "ok", parsed |-> d] : d \in SourceDBs \cup {Nil}}

InitLoad ==
    /\ urls \in StringsOver(Sources, 0, MaxURLs)
    /\ loadPc = "loop"
    /\ loadI = 0
    /\ loadAcc = [db |-> NewVulnDB, errors |-> <<>>, successCount |-> 0]
    /\ loadResult = [db |-> Nil, err |-> Nil]
    /\ IdleDB
    /\ IdleCSV
    /\ IdleParse
    /\ IdleScan
    /\ IdleYarn
    /\ IdleRun

LoadNoURLs ==
    /\ loadPc = "loop"
    /\ Len(urls) = 0
    /\ loadResult' = [db |-> Nil, err |-> [msg |-> "no URLs provided", errors |-> <<>>]]
    /\ loadPc' = "done"
    /\ UNCHANGED <<urls, loadI, loadAcc, notLoadVars>>

LoadSource ==
    /\ loadPc = "loop"
    /\ loadI < Len(urls)
    /\ \E ord \in Orders(IF LoadFromURL(urls[loadI + 1]).db = Nil THEN {}
                         ELSE DOMAIN LoadFromURL(urls[loadI + 1]).db.entries) :
            loadAcc' = LoadStep(loadAcc, loadI + 1, urls[loadI + 1], ord)
    /\ loadI' = loadI + 1
    /\ UNCHANGED <<loadPc, urls, loadResult, notLoadVars>>

LoadReturn ==
    /\ loadPc = "loop"
    /\ Len(urls) > 0
    /\ loadI = Len(urls)
    /\ loadResult' = LoadFinish(loadAcc)
    /\ loadPc' = "done"
    /\ UNCHANGED <<urls, loadI, loadAcc, notLoadVars>>

NextLoad == LoadNoURLs \/ LoadSource \/ LoadReturn

SpecLoad == InitLoad /\ [][NextLoad]_vars

\* The sources among the first n that load, and those that fail, by position.
LoadedAmong(n) == {i \in 1..n : LoadFromURL(urls[i]).err = Nil}
FailedAmong(n) == {i \in 1..n : LoadFromURL(urls[i]).err # Nil}

\* The first loaded source that holds key k.
FirstHolder(k) ==
    CHOOSE i \in LoadedAmong(Len(urls)) :
        /\ k \in DOMAIN urls[i].parsed.entries
        /\ \A j \in LoadedAmong(Len(urls)) : k \in DOMAIN urls[j].parsed.entries => i <= j

RECURSIVE SumSizes(_)
SumSizes(S) ==
    IF S = {} THEN 0
    ELSE LET i == CHOOSE x \in S : TRUE IN Size(urls[i].parsed) + SumSizes(S \ {i})

\* C7: the sources are processed in order, one by one: after n rounds the error
\* list holds exactly the errors of the failed sources among the first n, in
\* order, and the success count is the number of the others.  The call returns
\* an error and no database iff no source loaded (in particular when none was
\* given); if all failed the error holds every per-source error; otherwise the
\* result is the merge of exactly the loaded sources: its keys are the union of
\* theirs, each entry is the one of the first loaded source holding the key,
\* and it counts one insertion per entry merged.
C7_PartialFailureTolerated ==
    /\ loadPc \in {"loop", "done"} =>
        /\ loadAcc.successCount = Cardinality(LoadedAmong(loadI))
        /\ Len(loadAcc.errors) = Cardinality(FailedAmong(loadI))
        /\ \A a, b \in 1..Len(loadAcc.errors) : a < b => loadAcc.errors[a][1] < loadAcc.errors[b][1]
        /\ \A i \in FailedAmong(loadI) : <<i, LoadFromURL(urls[i]).err>> \in SeqToSet(loadAcc.errors)
    /\ loadPc = "done" =>
        LET loaded == LoadedAmong(Len(urls))
        IN  /\ (loadResult.err # Nil) <=> (loaded = {})
            /\ loadResult.err # Nil => loadResult.db = Nil
            /\ (loaded = {} /\ Len(urls) > 0) =>
                    \A i \in 1..Len(urls) :
                        <<i, LoadFromURL(urls[i]).err>> \in SeqToSet(loadResult.err.errors)
            /\ loaded # {} =>
                /\ loadResult.db # Nil
                /\ DOMAIN loadResult.db.entries =
                        UNION {DOMAIN urls[i].parsed.entries : i \in loaded}
                /\ \A k \in DOMAIN loadResult.db.entries :
                        loadResult.db.entries[k] = urls[FirstHolder(k)].parsed.entries[k]
                /\ TotalEntries(loadResult.db) = SumSizes(loaded)

\* C7's case: a load that returned a database although a source failed.
C7_Witness ==
    /\ loadPc = "done"
    /\ loadResult.db # Nil
    /\ Size(loadResult.db) > 0
    /\ FailedAmong(Len(urls)) # {}

(***************************************************************************)
(* SpecDB: a VulnDB driven by arbitrary Add and Merge calls.               *)
(***************************************************************************)
MaxTotal == 4
MaxOther == 2

DBNames == {<<"a">>, <<"a", "@", "b">>}
DBVersions == {<<"c">>, <<"b", "@", "c">>}
DBCells == {<<"c">>, <<"c", ",", "d">>}
DBEntries == {VulnEntry(n, v, c) : n \in DBNames, v \in DBVersions, c \in DBCells}

PairsOf(d) == {<<d.entries[k].PackageName, d.entries[k].PackageVersion>> : k \in DOMAIN d.entries}

InitDB ==
    /\ IdleDB
    /\ IdleCSV
    /\ IdleLoad
    /\ IdleParse
    /\ IdleScan
    /\ IdleYarn
    /\ IdleRun

DbAdd ==
    \E e \in DBEntries :
        /\ db.totalEntries < MaxTotal
        /\ db' = Add(db, e)
        /\ added' = added \cup {<<e.PackageName, e.PackageVersion>>}
        /\ lastOp' = [op |-> "Add", entry |-> e,
                      dup |-> EntryKey(e.PackageName, e.PackageVersion) \in DOMAIN db.entries]
        /\ UNCHANGED <<other, notDbVars>>

OtherAdd ==
    \E e \in DBEntries :
        /\ other.totalEntries < MaxOther
        /\ other' = Add(other, e)
        /\ UNCHANGED <<db, added, lastOp, notDbVars>>

DbMerge ==
    \E ord \in Orders(DOMAIN other.entries) :
        /\ db.totalEntries + Size(other) <= MaxTotal
        /\ db' = Merge(db, other, ord)
        /\ added' = added \cup PairsOf(other)
        /\ lastOp' = [op |-> "Merge", n |-> Size(other)]
        /\ UNCHANGED <<other, notDbVars>>

DbMergeNil ==
    /\ db' = Merge(db, Nil, <<>>)
    /\ lastOp' = [op |-> "MergeNil"]
    /\ UNCHANGED <<other, added, notDbVars>>

NextDB == DbAdd \/ OtherAdd \/ DbMerge \/ DbMergeNil

SpecDB == InitDB /\ [][NextDB]_vars

\* C1: for every probed name n and version v, Check(n, v) returns an entry only if
\* that entry's PackageName is n and its PackageVersion is v, and it returns such an
\* entry whenever <<n, v>> was added (names and versions may contain "@").
C1_CheckIsExactMatch ==
    \A n \in DBNames, v \in DBVersions :
        LET e == Check(db, n, v)
        IN  /\ e # Nil => (e.PackageName = n /\ e.PackageVersion = v)
            /\ <<n, v>> \in added => (e # Nil /\ e.PackageName = n /\ e.PackageVersion = v)

\* A step of SpecDB that is a call of db.Add / db.Merge(other).
StepIsDbAdd == lastOp'.op = "Add" /\ (lastOp' # lastOp \/ db' # db)
StepIsDbMerge == lastOp'.op = "Merge" /\ (lastOp' # lastOp \/ db' # db)

\* C4: the index never holds two entries with the same (PackageName, PackageVersion);
\* TotalEntries() >= Size() always; TotalEntries() never decreases; an Add raises
\* TotalEntries() by exactly one and leaves Size() unchanged when its key is already
\* present (and raises it by one otherwise); a Merge raises TotalEntries() by one
\* for every entry it inserts.
C4_DedupAndCounter ==
    /\ [](/\ \A k1, k2 \in DOMAIN db.entries :
                (/\ db.entries[k1].PackageName = db.entries[k2].PackageName
                 /\ db.entries[k1].PackageVersion = db.entries[k2].PackageVersion) => k1 = k2
          /\ TotalEntries(db) >= Size(db))
    /\ [][/\ TotalEntries(db') >= TotalEntries(db)
          /\ StepIsDbAdd =>
                /\ TotalEntries(db') = TotalEntries(db) + 1
                /\ Size(db') = Size(db) + (IF lastOp'.dup THEN 0 ELSE 1)
          /\ StepIsDbMerge =>
                /\ TotalEntries(db') = TotalEntries(db) + Size(other)
                /\ Size(db') = Cardinality(DOMAIN db.entries \cup DOMAIN other.entries)]_vars

\* C4's case: a duplicate Add has happened, so the two counters differ.
C4_Witness ==
    /\ lastOp.op = "Add"
    /\ lastOp.dup
    /\ Size(db) < TotalEntries(db)


\* The (name, version) pairs for which Check succeeds on d.
Checked(d) == {<<n, v>> \in DBNames \X DBVersions : Check(d, n, v) # Nil}

StepIsDbMergeNil == lastOp'.op = "MergeNil" /\ lastOp' # lastOp

\* C29: Merge(nil) leaves the database unchanged.  A step A.Merge(B) makes the
\* pairs for which Check succeeds the union of A's and B's pairs, Size() the
\* size of that union, and leaves B unchanged; merging B once more, in any
\* visiting order, changes neither Size() nor the pairs Check finds; and B
\* merged into A finds the same pairs as A merged into B.
C29_MergeIsUnion ==
    [][/\ StepIsDbMergeNil => db' = db
       /\ StepIsDbMerge =>
            /\ Checked(db') = Checked(db) \cup Checked(other)
            /\ Size(db') = Cardinality(Checked(db) \cup Checked(other))
            /\ other' = other
            /\ \A ord \in Orders(DOMAIN other.entries) :
                    /\ Size(Merge(db', other, ord)) = Size(db')
                    /\ Checked(Merge(db', other, ord)) = Checked(db')
            /\ \A ord \in Orders(DOMAIN db.entries) :
                    Checked(Merge(other, db, ord)) = Checked(db')]_vars

(***************************************************************************)
(* internal/scanner/parser.go: the manifest and lockfile parsers.          *)
(*                                                                         *)
(* A file's content is modelled by what json.Unmarshal makes of it: `valid`*)
(* says whether it is JSON at all, and each field the decoders look at is  *)
(* absent, a mapping to strings, a mapping to objects, or a value of some  *)
(* other JSON type.  A mapping is a sequence of <<key, value>> pairs with  *)
(* distinct keys; its order is the order in which Go's range visits it.    *)
(***************************************************************************)
Package(name, version, isDev, source) ==
    [Name |-> name, Version |-> version, IsDev |-> isDev, Source |-> source]

Absent == [kind |-> "absent", val |-> <<>>]

StringMap(pairs) == [kind |-> "strings", val |-> pairs]

ObjectMap(pairs) == [kind |-> "objects", val |-> pairs]

OtherValue == [kind |-> "other", val |-> <<>>]

\* Can the field be decoded into a map[string]string / map[string]struct?
\* The empty object decodes into either.
DecodesAsStrings(f) == f.kind \in {"absent", "strings"} \/ (f.kind = "objects" /\ f.val = <<>>)

DecodesAsObjects(f) == f.kind \in {"absent", "objects"} \/ (f.kind = "strings" /\ f.val = <<>>)

Document(valid, deps, devDeps, optDeps, peerDeps, packages, scripts) ==
    [valid |-> valid, dependencies |-> deps, devDependencies |-> devDeps,
     optionalDependencies |-> optDeps, peerDependencies |-> peerDeps,
     packages |-> packages, scripts |-> scripts]

\* Content that is not JSON (also what a YAML or yarn lockfile is to the
\* JSON decoder).
NotJSON == Document(FALSE, Absent, Absent, Absent, Absent, Absent, Absent)

\* contents[:idx] when the first space is at idx > 0
CutAtSpace(version) ==
    LET idx == Index(version, <<" ">>)
    IN  IF idx > 0 THEN SubSeq(version, 1, idx) ELSE version

cleanVersion(version) ==
    LET v1 == TrimPrefix(version, <<"^">>)
        v2 == TrimPrefix(v1, <<"~">>)
        v3 == TrimPrefix(v2, <<">", "=">>)
        v4 == TrimPrefix(v3, <<">">>)
        v5 == TrimPrefix(v4, <<"<", "=">>)
        v6 == TrimPrefix(v5, <<"<">>)
        v7 == TrimPrefix(v6, <<"=">>)
    IN  CutAtSpace(TrimSpace(v7))

\* One `for name, version := range m` loop of ParsePackageJSON.
DirectPackages(m, isDev) ==
    [i \in 1..Len(m) |-> Package(m[i][1], cleanVersion(m[i][2]), isDev, "direct")]

PackageJSONDecodes(doc) ==
    /\ doc.valid
    /\ DecodesAsStrings(doc.dependencies)
    /\ DecodesAsStrings(doc.devDependencies)
    /\ DecodesAsStrings(doc.optionalDependencies)
    /\ DecodesAsStrings(doc.peerDependencies)

\* The variant that ignores the includeDev flag.
ParsePackageJSONAlwaysDev(doc, includeDev) ==
    IF ~PackageJSONDecodes(doc)
    THEN [packages |-> <<>>, err |-> [msg |-> "failed to parse package.json"]]
    ELSE [packages |-> DirectPackages(doc.dependencies.val, FALSE)
                       \o DirectPackages(doc.devDependencies.val, TRUE)
                       \o DirectPackages(doc.optionalDependencies.val, FALSE)
                       \o DirectPackages(doc.peerDependencies.val, FALSE),
          err |-> Nil]

ParsePackageJSON(doc, includeDev) ==
    IF ~PackageJSONDecodes(doc)
    THEN [packages |-> <<>>, err |-> [msg |-> "failed to parse package.json"]]
    ELSE [packages |-> DirectPackages(doc.dependencies.val, FALSE)
                       \o (IF includeDev
                           THEN DirectPackages(doc.devDependencies.val, TRUE)
                           ELSE <<>>)
                       \o DirectPackages(doc.optionalDependencies.val, FALSE)
                       \o DirectPackages(doc.peerDependencies.val, FALSE),
          err |-> Nil]

\* A lockfile path is a sequence of symbols in which the directory name
\* node_modules is one symbol and every other character is one symbol.
Slash == <<"/">>

NodeModules == <<"node_modules">>

extractPackageName(pkgPath) ==
    LET path == TrimPrefix(pkgPath, NodeModules \o Slash)
        parts == Split(path, Slash \o NodeModules \o Slash)
        lastPart == parts[Len(parts)]
        scoped == SplitN(lastPart, Slash, 3)
        segments == SplitN(lastPart, Slash, 2)
    IN  IF HasPrefix(lastPart, <<"@">>) /\ Len(scoped) >= 2
        THEN scoped[1] \o Slash \o scoped[2]
        ELSE segments[1]

\* An entry of the packages mapping (v2/v3) or of a dependencies mapping (v1).
LockEntry(version, dev, dependencies) ==
    [version |-> version, dev |-> dev, dependencies |-> dependencies]

PackageLockDecodes(doc) ==
    /\ doc.valid
    /\ DecodesAsObjects(doc.packages)
    /\ DecodesAsObjects(doc.dependencies)

\* The accumulator a lockfile walk threads through: the seen set and the
\* packages emitted so far.
NoPackages == [seen |-> {}, packages |-> <<>>]

\* A wrong packages-loop body: dev-flagged entries are never skipped.
LockPackageStepKeepsDev(st, pkgPath, entry, includeDev) ==
    LET name == extractPackageName(pkgPath)
        key == name \o <<"@">> \o entry.version
    IN  IF pkgPath = EmptyStr \/ pkgPath = <<".">> THEN st
        ELSE IF name = EmptyStr THEN st
        ELSE IF key \in st.seen THEN st
        ELSE [seen |-> st.seen \cup {key},
              packages |-> Append(st.packages,
                                  Package(name, entry.version, entry.dev, "transitive"))]

\* The body of the `range lock.Packages` loop for one entry.
LockPackageStep(st, pkgPath, entry, includeDev) ==
    LET name == extractPackageName(pkgPath)
        key == name \o <<"@">> \o entry.version
    IN  IF pkgPath = EmptyStr \/ pkgPath = <<".">> THEN st
        ELSE IF entry.dev /\ ~includeDev THEN st
        ELSE IF name = EmptyStr THEN st
        ELSE IF key \in st.seen THEN st
        ELSE [seen |-> st.seen \cup {key},
              packages |-> Append(st.packages,
                                  Package(name, entry.version, entry.dev, "transitive"))]

RECURSIVE LockPackagesFrom(_, _, _, _)
LockPackagesFrom(m, i, includeDev, st) ==
    IF i > Len(m) THEN st
    ELSE LockPackagesFrom(m, i + 1, includeDev,
                          LockPackageStep(st, m[i][1], m[i][2], includeDev))

RECURSIVE parseLegacyDepsFrom(_, _, _, _, _)
parseLegacyDepsFrom(deps, i, prefix, includeDev, st) ==
    IF i > Len(deps) THEN st
    ELSE LET name == deps[i][1]
             entry == deps[i][2]
             key == name \o <<"@">> \o entry.version
             emitted == [seen |-> st.seen \cup {key},
                         packages |-> Append(st.packages,
                                             Package(name, entry.version, entry.dev, "transitive"))]
             after == IF entry.dev /\ ~includeDev THEN st
                      ELSE IF key \in st.seen THEN st
                      ELSE IF Len(entry.dependencies) > 0
                           THEN parseLegacyDepsFrom(entry.dependencies, 1, name \o Slash,
                                                    includeDev, emitted)
                           ELSE emitted
         IN  parseLegacyDepsFrom(deps, i + 1, prefix, includeDev, after)

parseLegacyDeps(deps, prefix, includeDev, st) ==
    parseLegacyDepsFrom(deps, 1, prefix, includeDev, st)

ParsePackageLock(doc, includeDev) ==
    IF ~PackageLockDecodes(doc)
    THEN [packages |-> <<>>, err |-> [msg |-> "failed to parse package-lock.json"]]
    ELSE LET v2 == IF Len(doc.packages.val) > 0
                   THEN LockPackagesFrom(doc.packages.val, 1, includeDev, NoPackages)
                   ELSE NoPackages
             v1 == IF Len(doc.dependencies.val) > 0
                   THEN parseLegacyDeps(doc.dependencies.val, EmptyStr, includeDev, v2)
                   ELSE v2
         IN  [packages |-> v1.packages, err |-> Nil]


(***************************************************************************)
(* ParsePnpmLock.  A pnpm key is a sequence of symbols in which "/", "@",  *)
(* "(", ")" and "_" are symbols of their own.  The document is what        *)
(* yaml.Unmarshal makes of the content, in the same shape as above.        *)
(***************************************************************************)
stripPnpmPeerDepSuffix(version) ==
    LET paren == Index(version, <<"(">>)
        v1 == IF paren > 0 THEN SubSeq(version, 1, paren) ELSE version
        under == Index(v1, <<"_">>)
        suffix == SubSeq(v1, under + 2, Len(v1))
    IN  IF under > 0 /\ Contains(suffix, <<"@">>) THEN SubSeq(v1, 1, under) ELSE v1

\* The (name, version) pair for a key that names no package.
NoNameVersion == <<EmptyStr, EmptyStr>>

\* The pkg/version shape: split on the last slash.
SplitAtLastSlash(key) ==
    LET idx == LastIndex(key, Slash)
    IN  IF idx > 0
        THEN <<SubSeq(key, 1, idx), stripPnpmPeerDepSuffix(SubSeq(key, idx + 2, Len(key)))>>
        ELSE NoNameVersion

parsePnpmPackageKey(rawKey) ==
    LET key == TrimPrefix(rawKey, Slash)
        scopedParts == SplitN(key, <<"@">>, 3)
        parts == SplitN(key, <<"@">>, 2)
    IN  IF HasPrefix(key, <<"@">>)
        THEN IF Len(scopedParts) < 2 THEN NoNameVersion
             ELSE IF Len(scopedParts) = 3
                  THEN <<<<"@">> \o scopedParts[2], stripPnpmPeerDepSuffix(scopedParts[3])>>
             ELSE SplitAtLastSlash(key)
        ELSE IF Contains(key, <<"@">>) /\ Len(parts) = 2
             THEN <<parts[1], stripPnpmPeerDepSuffix(parts[2])>>
        ELSE SplitAtLastSlash(key)

PnpmLockDecodes(doc) == doc.valid /\ DecodesAsObjects(doc.packages)

\* A wrong pnpm loop body: deduplication on the raw key, decoration included.
PnpmPackageStepRawKeyDedup(st, key, entry, includeDev) ==
    LET nv == parsePnpmPackageKey(key)
    IN  IF key = EmptyStr THEN st
        ELSE IF entry.dev /\ ~includeDev THEN st
        ELSE IF nv[1] = EmptyStr \/ nv[2] = EmptyStr THEN st
        ELSE IF key \in st.seen THEN st
        ELSE [seen |-> st.seen \cup {key},
              packages |-> Append(st.packages,
                                  Package(nv[1], nv[2], entry.dev, "transitive"))]

\* The body of the `range lockFile.Packages` loop for one entry.
PnpmPackageStep(st, key, entry, includeDev) ==
    LET nv == parsePnpmPackageKey(key)
        name == nv[1]
        version == nv[2]
        pkgKey == name \o <<"@">> \o version
    IN  IF key = EmptyStr THEN st
        ELSE IF entry.dev /\ ~includeDev THEN st
        ELSE IF name = EmptyStr \/ version = EmptyStr THEN st
        ELSE IF pkgKey \in st.seen THEN st
        ELSE [seen |-> st.seen \cup {pkgKey},
              packages |-> Append(st.packages,
                                  Package(name, version, entry.dev, "transitive"))]

RECURSIVE PnpmPackagesFrom(_, _, _, _)
PnpmPackagesFrom(m, i, includeDev, st) ==
    IF i > Len(m) THEN st
    ELSE PnpmPackagesFrom(m, i + 1, includeDev,
                          PnpmPackageStep(st, m[i][1], m[i][2], includeDev))

ParsePnpmLock(doc, includeDev) ==
    IF ~PnpmLockDecodes(doc)
    THEN [packages |-> <<>>, err |-> [msg |-> "failed to parse pnpm-lock.yaml"]]
    ELSE [packages |-> PnpmPackagesFrom(doc.packages.val, 1, includeDev, NoPackages).packages,
          err |-> Nil]

(***************************************************************************)
(* ParseYarnLock.  The content is the sequence of its lines (what          *)
(* strings.Split(content, "\n") returns), each line a sequence of symbols  *)
(* in which the delimiters the code looks for (space, '#', ':', ',', '@',  *)
(* quotes) are symbols of their own and "npm", "version", "__metadata" and *)
(* every name, digit and range operator is one symbol; a word that starts  *)
(* with "version" is that symbol followed by the rest of the word.         *)
(***************************************************************************)
Colon == <<":">>

AtNpm == <<"@", "npm", ":">>

MetadataHeader == <<"__metadata", ":">>

Quotes == {"\"", "'"}

\* strings.Trim(s, cutset)
Trim(s, cutset) ==
    LET keep == {i \in 1..Len(s) : s[i] \notin cutset}
    IN  IF keep = {} THEN EmptyStr
        ELSE SubSeq(s, CHOOSE i \in keep : \A j \in keep : i <= j,
                       CHOOSE i \in keep : \A j \in keep : i >= j)

newYarnLockParser ==
    [packages |-> <<>>, seen |-> {}, currentNames |-> <<>>, currentVer |-> EmptyStr,
     inEntry |-> FALSE]

\* The loop of saveCurrentEntry over p.currentNames from position i on.
RECURSIVE SaveNamesFrom(_, _)
SaveNamesFrom(p, i) ==
    IF i > Len(p.currentNames) THEN p
    ELSE LET name == p.currentNames[i]
             pkgKey == name \o <<"@">> \o p.currentVer
         IN  IF pkgKey \in p.seen THEN SaveNamesFrom(p, i + 1)
             ELSE SaveNamesFrom([p EXCEPT !.seen = @ \cup {pkgKey},
                                          !.packages = Append(@, Package(name, p.currentVer,
                                                                         FALSE, "transitive"))],
                                i + 1)

saveCurrentEntry(p) ==
    IF ~p.inEntry \/ p.currentVer = EmptyStr \/ Len(p.currentNames) = 0 THEN p
    ELSE SaveNamesFrom(p, 1)

trimSurroundingQuotes(s) ==
    IF HasPrefix(s, <<"\"">>) /\ HasSuffix(s, <<"\"">>)
    THEN TrimPrefix(TrimSuffix(s, <<"\"">>), <<"\"">>)
    ELSE IF HasPrefix(s, <<"'">>) /\ HasSuffix(s, <<"'">>)
    THEN TrimPrefix(TrimSuffix(s, <<"'">>), <<"'">>)
    ELSE s

extractYarnPackageName(rawEntry) ==
    LET entry == IF Contains(rawEntry, AtNpm) THEN SplitN(rawEntry, AtNpm, 2)[1]
                 ELSE rawEntry
        idx == Index(Tail(entry), <<"@">>)
    IN  IF HasPrefix(entry, <<"@">>)
        THEN IF idx > 0 THEN SubSeq(entry, 1, idx + 1) ELSE entry
        ELSE SplitN(entry, <<"@">>, 2)[1]

\* The loop of parseYarnDeclarationLine over nameRanges from position i on.
RECURSIVE YarnNamesFrom(_, _, _)
YarnNamesFrom(nameRanges, i, names) ==
    IF i > Len(nameRanges) THEN names
    ELSE LET name == extractYarnPackageName(trimSurroundingQuotes(TrimSpace(nameRanges[i])))
         IN  IF name # EmptyStr /\ \A k \in 1..Len(names) : names[k] # name
             THEN YarnNamesFrom(nameRanges, i + 1, Append(names, name))
             ELSE YarnNamesFrom(nameRanges, i + 1, names)

parseYarnDeclarationLine(trimmed) ==
    YarnNamesFrom(Split(TrimSuffix(trimmed, Colon), <<",">>), 1, <<>>)

isYarnDeclarationLine(line, trimmed) ==
    /\ ~HasPrefix(line, <<" ">>)
    /\ ~HasPrefix(line, <<"\t">>)
    /\ HasSuffix(trimmed, Colon)

parseYarnVersionLine(trimmed) ==
    LET parts == SplitN(trimmed, <<" ">>, 2)
    IN  IF Len(parts) = 2 THEN Trim(parts[2], Quotes) ELSE EmptyStr

isBerryVersionRangeStart(c) == c \in {"^", "~", ">", "<", "=", "0", "1", "2", "3", "4", "5", "6", "7", "8", "9"}

hasBerryStyleNpmPrefix(trimmed) ==
    LET npmIdx == Index(trimmed, AtNpm)
        afterNpm == SubSeq(trimmed, npmIdx + Len(AtNpm) + 1, Len(trimmed))
    IN  IF npmIdx < 0 THEN FALSE
        ELSE IF Len(afterNpm) = 0 THEN FALSE
        ELSE isBerryVersionRangeStart(afterNpm[1])

IsSkippedLine(trimmed) == trimmed = EmptyStr \/ HasPrefix(trimmed, <<"#">>)

isYarnBerryFormat(content) ==
    \/ \E i \in 1..Len(content) : Contains(content[i], MetadataHeader)
    \/ \E i \in 1..Len(content) :
          LET trimmed == TrimSpace(content[i])
          IN  /\ ~IsSkippedLine(trimmed)
              /\ HasSuffix(trimmed, Colon)
              /\ hasBerryStyleNpmPrefix(trimmed)

\* The body of the line loop of ParseYarnLock.
YarnLineStep(p, line) ==
    LET trimmed == TrimSpace(line)
    IN  IF IsSkippedLine(trimmed) THEN p
        ELSE IF isYarnDeclarationLine(line, trimmed)
        THEN [saveCurrentEntry(p) EXCEPT !.currentNames = parseYarnDeclarationLine(trimmed),
                                         !.currentVer = EmptyStr,
                                         !.inEntry = TRUE]
        ELSE IF p.inEntry /\ HasPrefix(trimmed, <<"version">>)
        THEN [p EXCEPT !.currentVer = parseYarnVersionLine(trimmed)]
        ELSE p

RECURSIVE YarnLinesFrom(_, _, _)
YarnLinesFrom(content, i, p) ==
    IF i > Len(content) THEN p
    ELSE YarnLinesFrom(content, i + 1, YarnLineStep(p, content[i]))

UnsupportedFormat == [msg |-> "yarn.lock appears to be Yarn Berry (v2+) format"]

ParseYarnLock(content, includeDev) ==
    IF isYarnBerryFormat(content)
    THEN [packages |-> <<>>, err |-> UnsupportedFormat]
    ELSE [packages |-> saveCurrentEntry(YarnLinesFrom(content, 1, newYarnLockParser)).packages,
          err |-> Nil]

(***************************************************************************)
(* SpecParse: one parser call on one document.  Init draws the document,   *)
(* the parser it is handed to and the includeDev flag; the action is the   *)
(* call.                                                                   *)
(***************************************************************************)
MaxManifestDeps == 2

MaxLockEntries == 2

ManifestNames == {<<"a">>, <<"b">>, EmptyStr}

ManifestRanges == {<<"1">>, <<"^", "1">>, <<"^">>}

ManifestFields == 1..4

\* A manifest is built from a list of declarations, each placing one
\* name/range pair in one of the four dependency mappings.
Declarations ==
    UNION {[1..n -> [field : ManifestFields, name : ManifestNames, range : ManifestRanges]]
           : n \in 0..MaxManifestDeps}

DistinctKeys(decls) ==
    \A i, j \in 1..Len(decls) :
        (decls[i].field = decls[j].field /\ decls[i].name = decls[j].name) => i = j

FieldPairs(decls, k) ==
    LET sel == SelectSeq(decls, LAMBDA e : e.field = k)
    IN  [i \in 1..Len(sel) |-> <<sel[i].name, sel[i].range>>]

ManifestOf(decls, scripts) ==
    Document(TRUE, StringMap(FieldPairs(decls, 1)), StringMap(FieldPairs(decls, 2)),
             StringMap(FieldPairs(decls, 3)), StringMap(FieldPairs(decls, 4)),
             Absent, scripts)

ManifestDocs == {ManifestOf(decls, Absent) : decls \in {d \in Declarations : DistinctKeys(d)}}

LockPaths ==
    {EmptyStr,
     <<".">>,
     <<"node_modules", "/">>,
     <<"node_modules", "/", "a">>,
     <<"node_modules", "/", "a", "/", "node_modules", "/", "b">>,
     <<"node_modules", "/", "@", "s", "/", "a">>}

LockNames == {<<"a">>, <<"b">>}

LockVersions == {<<"1">>, EmptyStr}

Keys(m) == {m[i][1] : i \in 1..Len(m)}

\* The packages mappings (v2/v3) of exactly n entries.
RECURSIVE PackagesMaps(_)
PackagesMaps(n) ==
    IF n = 0 THEN {<<>>}
    ELSE {<<<<path, LockEntry(v, d, <<>>)>>>> \o rest :
            <<path, v, d, rest>> \in
                {t \in LockPaths \X LockVersions \X BOOLEAN \X PackagesMaps(n - 1) :
                    t[1] \notin Keys(t[4])}}

\* The dependencies mappings (v1) of at most n entries, nested ones counted.
RECURSIVE LegacyMaps(_)
LegacyMaps(n) ==
    IF n = 0 THEN {<<>>}
    ELSE {<<>>} \cup
         UNION {{<<<<name, LockEntry(v, d, children)>>>> \o rest :
                    <<name, v, d, children, rest>> \in
                        {t \in LockNames \X LockVersions \X BOOLEAN
                               \X LegacyMaps(k) \X LegacyMaps(n - 1 - k) :
                            t[1] \notin Keys(t[5])}}
                : k \in 0..(n - 1)}

LockOf(packages, dependencies) ==
    Document(TRUE, ObjectMap(dependencies), Absent, Absent, Absent,
             ObjectMap(packages), Absent)

LockDocs ==
    UNION {{LockOf(P, D) : <<P, D>> \in PackagesMaps(i) \X LegacyMaps(MaxLockEntries - i)}
           : i \in 0..MaxLockEntries}

\* Documents neither decoder accepts: not JSON, or a field of the wrong type.
BrokenDocs ==
    {NotJSON,
     Document(TRUE, OtherValue, Absent, Absent, Absent, Absent, Absent),
     Document(TRUE, Absent, Absent, Absent, Absent, OtherValue, Absent)}

ParseDocs == ManifestDocs \cup LockDocs \cup BrokenDocs

PnpmKeys ==
    {EmptyStr,
     <<".">>,
     <<"/", "a">>,
     <<"/", "a", "@", "1">>,
     <<"a", "@", "1">>,
     <<"/", "a", "/", "1">>,
     <<"/", "b", "@", "1">>,
     <<"/", "@", "s", "/", "a", "@", "1">>,
     <<"/", "a", "@", "1", "(", "q", "@", "2", ")">>,
     <<"/", "a", "@", "1", "_", "q", "@", "2">>}

\* The pnpm packages mappings of exactly n entries.
RECURSIVE PnpmMaps(_)
PnpmMaps(n) ==
    IF n = 0 THEN {<<>>}
    ELSE {<<<<key, LockEntry(EmptyStr, d, <<>>)>>>> \o rest :
            <<key, d, rest>> \in
                {t \in PnpmKeys \X BOOLEAN \X PnpmMaps(n - 1) : t[1] \notin Keys(t[3])}}

PnpmDocs ==
    UNION {{LockOf(P, <<>>) : P \in PnpmMaps(i)} : i \in 0..MaxLockEntries} \cup BrokenDocs

MaxYarnLines == 4

YarnLines ==
    {<<"a", "@", "1", ":">>,
     <<"\"", "a", "@", "^", "1", "\"", ",", " ", "b", "@", "npm", ":", "a", "@", "1", ":">>,
     <<"a", "@", "npm", ":", "^", "1", ":">>,
     <<"b", "@", "npm", ":", "a", "@", "1", ",", " ", "a", "@", "npm", ":", "^", "1", ":">>,
     <<" ", " ", "version", " ", "\"", "1", "\"">>,
     <<" ", " ", "version", " ", "\"", "2", "\"">>,
     <<" ", " ", "dependencies", ":">>,
     <<" ", " ", " ", " ", "version", "s", " ", "\"", "^", "2", "\"">>,
     <<"#", " ", "__metadata", ":">>,
     EmptyStr}

YarnContents == UNION {[1..n -> YarnLines] : n \in 1..MaxYarnLines}

\* Which documents each parser is handed: JSON content for the two JSON
\* parsers, YAML content for the pnpm parser, lines for the yarn parser.
ParserInputs ==
    ({"package.json", "package-lock.json"} \X ParseDocs)
        \cup ({"pnpm-lock.yaml"} \X PnpmDocs)
        \cup ({"yarn.lock"} \X YarnContents)

InitParse ==
    /\ \E input \in ParserInputs :
            /\ pKind = input[1]
            /\ pDoc = input[2]
    /\ pIncludeDev \in BOOLEAN
    /\ pOut = Nil
    /\ IdleDB
    /\ IdleCSV
    /\ IdleLoad
    /\ IdleScan
    /\ IdleYarn
    /\ IdleRun

RunParsePackageJSON ==
    /\ pKind = "package.json"
    /\ pOut = Nil
    /\ pOut' = ParsePackageJSON(pDoc, pIncludeDev)
    /\ UNCHANGED <<pKind, pDoc, pIncludeDev, notParseVars>>

RunParsePackageLock ==
    /\ pKind = "package-lock.json"
    /\ pOut = Nil
    /\ pOut' = ParsePackageLock(pDoc, pIncludeDev)
    /\ UNCHANGED <<pKind, pDoc, pIncludeDev, notParseVars>>

RunParsePnpmLock ==
    /\ pKind = "pnpm-lock.yaml"
    /\ pOut = Nil
    /\ pOut' = ParsePnpmLock(pDoc, pIncludeDev)
    /\ UNCHANGED <<pKind, pDoc, pIncludeDev, notParseVars>>

RunParseYarnLock ==
    /\ pKind = "yarn.lock"
    /\ pOut = Nil
    /\ pOut' = ParseYarnLock(pDoc, pIncludeDev)
    /\ UNCHANGED <<pKind, pDoc, pIncludeDev, notParseVars>>

NextParse ==
    \/ RunParsePackageJSON
    \/ RunParsePackageLock
    \/ RunParsePnpmLock
    \/ RunParseYarnLock

SpecParse == InitParse /\ [][NextParse]_vars

\* C9: every record a parser returns has a non-empty Name and a non-empty
\* Version; entries whose name or stripped version is empty are dropped.
C9_RecordsNonEmpty ==
    pOut # Nil =>
        \A i \in 1..Len(pOut.packages) :
            /\ pOut.packages[i].Name # EmptyStr
            /\ pOut.packages[i].Version # EmptyStr

\* How many pairs of the mapping m have the key name.
KeyCount(m, name) == Cardinality({i \in 1..Len(m) : m[i][1] = name})

\* How many of the records are direct records of that name and IsDev flag.
RecordCount(packages, name, isDev) ==
    Cardinality({i \in 1..Len(packages) :
                    /\ packages[i].Name = name
                    /\ packages[i].IsDev = isDev
                    /\ packages[i].Source = "direct"})

\* C10: for a valid manifest ParsePackageJSON emits each production, optional
\* and peer dependency as a direct record with IsDev false, each development
\* dependency as a direct record with IsDev true exactly when includeDev is
\* set, and no other record.
C10_ManifestDependenciesEmitted ==
    (pKind = "package.json" /\ pOut # Nil /\ PackageJSONDecodes(pDoc)) =>
        /\ pOut.err = Nil
        /\ \A name \in ManifestNames :
            /\ RecordCount(pOut.packages, name, FALSE)
                  = KeyCount(pDoc.dependencies.val, name)
                    + KeyCount(pDoc.optionalDependencies.val, name)
                    + KeyCount(pDoc.peerDependencies.val, name)
            /\ RecordCount(pOut.packages, name, TRUE)
                  = IF pIncludeDev THEN KeyCount(pDoc.devDependencies.val, name) ELSE 0
        /\ Len(pOut.packages)
              = Len(pDoc.dependencies.val) + Len(pDoc.optionalDependencies.val)
                + Len(pDoc.peerDependencies.val)
                + (IF pIncludeDev THEN Len(pDoc.devDependencies.val) ELSE 0)
        /\ \A i \in 1..Len(pOut.packages) : pOut.packages[i].Source = "direct"

C10_Witness ==
    /\ pKind = "package.json"
    /\ pOut # Nil
    /\ PackageJSONDecodes(pDoc)
    /\ ~pIncludeDev
    /\ Len(pDoc.dependencies.val) > 0
    /\ Len(pDoc.devDependencies.val) > 0


\* Every <<name, entry>> pair of a legacy dependencies tree, at every depth.
RECURSIVE LegacyTreeEntries(_)
LegacyTreeEntries(deps) ==
    UNION {{<<deps[i][1], deps[i][2]>>} \cup LegacyTreeEntries(deps[i][2].dependencies)
           : i \in 1..Len(deps)}

Occurrence(name, version, dev) == [name |-> name, version |-> version, dev |-> dev]

\* The packages the non-root entries of the packages mapping name.
PackagesOccurrences ==
    LET m == pDoc.packages.val
    IN  IF pKind = "pnpm-lock.yaml"
        THEN {Occurrence(parsePnpmPackageKey(m[i][1])[1], parsePnpmPackageKey(m[i][1])[2],
                         m[i][2].dev) : i \in {j \in 1..Len(m) : m[j][1] # EmptyStr}}
        ELSE {Occurrence(extractPackageName(m[i][1]), m[i][2].version, m[i][2].dev)
              : i \in {j \in 1..Len(m) : m[j][1] \notin {EmptyStr, <<".">>}}}

\* The packages the entries of the legacy dependencies tree name.
LegacyOccurrences ==
    IF pKind = "pnpm-lock.yaml" THEN {}
    ELSE {Occurrence(e[1], e[2].version, e[2].dev)
          : e \in LegacyTreeEntries(pDoc.dependencies.val)}

Records == {pOut.packages[i] : i \in 1..Len(pOut.packages)}

LockfileParsed ==
    /\ pKind \in {"package-lock.json", "pnpm-lock.yaml"}
    /\ pOut # Nil
    /\ pOut.err = Nil

\* C11: with includeDev false no record is dev and a package named only by
\* dev-flagged entries is absent from the output of ParsePackageLock and
\* ParsePnpmLock; under either setting every record stems from a non-root
\* entry, and every non-root entry of the packages mapping that is not
\* dev-flagged and names a package has a record with its name and version.
C11_DevFilterAndRoot ==
    LockfileParsed =>
        LET all == PackagesOccurrences \cup LegacyOccurrences
        IN  /\ ~pIncludeDev =>
                /\ \A r \in Records : ~r.IsDev
                /\ \A o \in all :
                      (\A o2 \in all : o2.name = o.name => o2.dev) =>
                          \A r \in Records : r.Name # o.name
            /\ \A r \in Records :
                  \E o \in all : o.name = r.Name /\ o.version = r.Version
            /\ \A o \in PackagesOccurrences :
                  (/\ ~o.dev
                   /\ o.name # EmptyStr
                   /\ (pKind = "pnpm-lock.yaml" => o.version # EmptyStr)) =>
                      \E r \in Records : r.Name = o.name /\ r.Version = o.version

C11_Witness ==
    /\ LockfileParsed
    /\ pKind = "package-lock.json"
    /\ ~pIncludeDev
    /\ \E o \in PackagesOccurrences : o.dev /\ o.name # EmptyStr
    /\ \E o \in PackagesOccurrences : ~o.dev /\ o.name # EmptyStr
    /\ Len(pOut.packages) = 1

C13_EveryLegacyEntryRepresented ==
    (pKind = "package-lock.json" /\ pOut # Nil /\ pOut.err = Nil) =>
        \A e \in LegacyTreeEntries(pDoc.dependencies.val) :
            (~e[2].dev \/ pIncludeDev) =>
                \E r \in Records : r.Name = e[1] /\ r.Version = e[2].version

\* Does some line of the content hold the metadata header?
HasMetadataHeader(content) ==
    \E i \in 1..Len(content) : Contains(content[i], MetadataHeader)

\* Is some "@npm:" of the line immediately followed by a digit or by one of
\* ^ ~ > < = ?
HasRangeAfterNpm(line) ==
    \E k \in 1..(Len(line) - Len(AtNpm)) :
        /\ SubSeq(line, k, k + Len(AtNpm) - 1) = AtNpm
        /\ isBerryVersionRangeStart(line[k + Len(AtNpm)])

\* Is some declaration line of the content one with such an alias?
HasBerryAlias(content) ==
    \E i \in 1..Len(content) :
        /\ ~IsSkippedLine(TrimSpace(content[i]))
        /\ isYarnDeclarationLine(content[i], TrimSpace(content[i]))
        /\ HasRangeAfterNpm(content[i])

\* C15: ParseYarnLock returns the unsupported-format error and no packages
\* whenever the content holds the __metadata: header or a declaration line
\* with an alias whose "@npm:" is followed by a digit or a range operator;
\* content with neither is not rejected.
C15_BerryRejected ==
    (pKind = "yarn.lock" /\ pOut # Nil) =>
        IF HasMetadataHeader(pDoc) \/ HasBerryAlias(pDoc)
        THEN pOut.err = UnsupportedFormat /\ pOut.packages = <<>>
        ELSE pOut.err = Nil

(***************************************************************************)
(* SpecYarn: ParseYarnLock run line by line.  Init draws the content; the  *)
(* format test comes first, then one action per pass of the line loop,     *)
(* then the final saveCurrentEntry and the return.                         *)
(***************************************************************************)
InitYarn ==
    /\ yarnPc = "check"
    /\ yarnContent \in YarnContents
    /\ yarnI = 0
    /\ yarnP = newYarnLockParser
    /\ yarnOut = Nil
    /\ IdleDB
    /\ IdleCSV
    /\ IdleLoad
    /\ IdleParse
    /\ IdleScan
    /\ IdleRun

YarnRejectBerry ==
    /\ yarnPc = "check"
    /\ isYarnBerryFormat(yarnContent)
    /\ yarnPc' = "done"
    /\ yarnOut' = [packages |-> <<>>, err |-> UnsupportedFormat]
    /\ UNCHANGED <<yarnContent, yarnI, yarnP, notYarnVars>>

YarnStartScan ==
    /\ yarnPc = "check"
    /\ ~isYarnBerryFormat(yarnContent)
    /\ yarnPc' = "scan"
    /\ UNCHANGED <<yarnContent, yarnI, yarnP, yarnOut, notYarnVars>>

YarnReadLine ==
    /\ yarnPc = "scan"
    /\ yarnI < Len(yarnContent)
    /\ yarnP' = YarnLineStep(yarnP, yarnContent[yarnI + 1])
    /\ yarnI' = yarnI + 1
    /\ UNCHANGED <<yarnPc, yarnContent, yarnOut, notYarnVars>>

YarnReturn ==
    /\ yarnPc = "scan"
    /\ yarnI = Len(yarnContent)
    /\ yarnP' = saveCurrentEntry(yarnP)
    /\ yarnOut' = [packages |-> saveCurrentEntry(yarnP).packages, err |-> Nil]
    /\ yarnPc' = "done"
    /\ UNCHANGED <<yarnContent, yarnI, notYarnVars>>

NextYarn == YarnRejectBerry \/ YarnStartScan \/ YarnReadLine \/ YarnReturn

SpecYarn == InitYarn /\ [][NextYarn]_vars

\* A declaration line: not blank, not a comment, not indented, ending in ':'.
IsDeclaration(line) ==
    /\ ~IsSkippedLine(TrimSpace(line))
    /\ isYarnDeclarationLine(line, TrimSpace(line))

\* A version line: a line of an entry whose key is the word version.
IsVersionLine(line) ==
    /\ ~IsSkippedLine(TrimSpace(line))
    /\ ~IsDeclaration(line)
    /\ SplitN(TrimSpace(line), <<" ">>, 2)[1] = <<"version">>

\* The positions of the declaration lines among the first n lines, in order.
DeclarationsUpTo(n) ==
    SelectSeq([i \in 1..n |-> i], LAMBDA i : IsDeclaration(yarnContent[i]))

\* The resolved version of the entry spanning lines from..to: that of its
\* last version line, or none.
ResolvedVersion(from, to) ==
    LET at == {i \in from..to : IsVersionLine(yarnContent[i])}
    IN  IF at = {} THEN EmptyStr
        ELSE parseYarnVersionLine(TrimSpace(yarnContent[CHOOSE i \in at : \A j \in at : i >= j]))

\* The records owed after the entries decls[k..last] are finalized, acc being
\* those owed before: one per alias name of each entry with a resolved
\* version, unless that name and version were emitted already.
RECURSIVE RecordsOwed(_, _, _, _, _)
RecordsOwed(decls, k, last, n, acc) ==
    IF k > last THEN acc
    ELSE LET to == IF k < Len(decls) THEN decls[k + 1] - 1 ELSE n
             version == ResolvedVersion(decls[k], to)
             names == parseYarnDeclarationLine(TrimSpace(yarnContent[decls[k]]))
             fresh == SelectSeq(names,
                                LAMBDA name : \A i \in 1..Len(acc) :
                                    ~(acc[i].Name = name /\ acc[i].Version = version))
             emitted == [i \in 1..Len(fresh) |-> Package(fresh[i], version, FALSE, "transitive")]
         IN  RecordsOwed(decls, k + 1, last, n,
                         IF version = EmptyStr THEN acc ELSE acc \o emitted)

\* C16: ParseYarnLock is a two-state line scanner.  After any number of
\* lines the parser is inside an entry exactly when a declaration line was
\* read, and the records emitted so far are those of the entries closed by a
\* later declaration line; at the end of input the last entry is finalized
\* too.  A finalized entry with a resolved version gives one record per
\* distinct alias name with that version unless the name and version were
\* emitted before, an entry without a version gives none, and the records are
\* in file order.
C16_YarnLineScanner ==
    /\ yarnPc = "scan" =>
        LET decls == DeclarationsUpTo(yarnI)
        IN  /\ yarnP.inEntry <=> Len(decls) > 0
            /\ yarnP.packages = RecordsOwed(decls, 1, Len(decls) - 1, yarnI, <<>>)
    /\ (yarnPc = "done" /\ yarnOut.err = Nil) =>
        LET decls == DeclarationsUpTo(Len(yarnContent))
        IN  yarnOut.packages = RecordsOwed(decls, 1, Len(decls), Len(yarnContent), <<>>)

\* The version field of an entry: a line whose key, the text before the first
\* space of the trimmed line, is the word version.
IsVersionField(line) == SplitN(TrimSpace(line), <<" ">>, 2)[1] = <<"version">>

\* A line that neither opens an entry nor is skipped as blank or comment.
IsBodyLine(line) ==
    /\ ~IsSkippedLine(TrimSpace(line))
    /\ ~isYarnDeclarationLine(line, TrimSpace(line))

StepReadsForeignLine ==
    /\ yarnPc = "scan"
    /\ yarnI < Len(yarnContent)
    /\ yarnI' = yarnI + 1
    /\ IsBodyLine(yarnContent[yarnI + 1])
    /\ ~(yarnP.inEntry /\ IsVersionField(yarnContent[yarnI + 1]))

\* C27: inside an open yarn.lock entry only the entry's own version field
\* sets the resolved version.  Every step of the line loop that reads another
\* body line of the entry (such as a dependency line whose key merely begins
\* with the letters version), or any body line while no entry is open, leaves
\* the resolved version, the alias names and the emitted records unchanged.
C27_OnlyVersionFieldSetsVersion ==
    [][StepReadsForeignLine =>
          /\ yarnP'.currentVer = yarnP.currentVer
          /\ yarnP'.currentNames = yarnP.currentNames
          /\ yarnP'.packages = yarnP.packages]_vars

(***************************************************************************)
(* SpecKey: one parsePnpmPackageKey call.  Init draws how the key is built *)
(* (leading slash, name, separator, version, peer decoration); the action  *)
(* is the call on the key so built.                                        *)
(***************************************************************************)
KeyNames == {<<"a">>, <<"b">>, <<"@", "s", "/", "a">>}

KeyVersions == {<<"1">>, <<"2">>}

KeySeparators == {<<"@">>, Slash}

KeyDecorations ==
    {EmptyStr,
     <<"(", "q", "@", "2", ")">>,
     <<"(", "q", "@", "2", ")", "(", "@", "t", "/", "r", "@", "3", ")">>,
     <<"_", "q", "@", "2">>}

KeyShapes ==
    [slash : BOOLEAN, name : KeyNames, sep : KeySeparators, version : KeyVersions,
     decoration : KeyDecorations]

KeyOf(shape) ==
    (IF shape.slash THEN Slash ELSE EmptyStr)
        \o shape.name \o shape.sep \o shape.version \o shape.decoration

InitKey ==
    /\ pKind = "pnpm-key"
    /\ pDoc \in KeyShapes
    /\ pIncludeDev = FALSE
    /\ pOut = Nil
    /\ IdleDB
    /\ IdleCSV
    /\ IdleLoad
    /\ IdleScan
    /\ IdleYarn
    /\ IdleRun

RunParsePnpmPackageKey ==
    /\ pKind = "pnpm-key"
    /\ pOut = Nil
    /\ pOut' = [name |-> parsePnpmPackageKey(KeyOf(pDoc))[1],
                version |-> parsePnpmPackageKey(KeyOf(pDoc))[2]]
    /\ UNCHANGED <<pKind, pDoc, pIncludeDev, notParseVars>>

NextKey == RunParsePnpmPackageKey

SpecKey == InitKey /\ [][NextKey]_vars

\* C14: for a key built from a plain or scoped name, either separator, a
\* version, an optional leading slash and no, a parenthesised (possibly
\* chained) or an underscore-joined decoration, parsePnpmPackageKey returns
\* the name with its scope and the version without the decoration.
C14_PnpmKeyParsed ==
    (pKind = "pnpm-key" /\ pOut # Nil) =>
        /\ pOut.name = pDoc.name
        /\ pOut.version = pDoc.version

\* The mapping m ranged over in the order o of its positions.
Ranged(m, o) == [i \in 1..Len(m) |-> m[o[i]]]

\* The document of another run: the same packages and dependencies mappings,
\* ranged over in the orders op and od.
RangedDoc(doc, op, od) ==
    [doc EXCEPT !.packages.val = Ranged(@, op), !.dependencies.val = Ranged(@, od)]

\* The parser SpecParse runs, on document doc.
ParserOutput(doc) ==
    CASE pKind = "package.json"      -> ParsePackageJSON(doc, pIncludeDev)
      [] pKind = "package-lock.json" -> ParsePackageLock(doc, pIncludeDev)
      [] pKind = "pnpm-lock.yaml"    -> ParsePnpmLock(doc, pIncludeDev)

\* C25: a JSON/YAML parser's result, as a set of records, is the same for
\* every order in which a run visits the entries of the document's mappings.
C25_ResultIndependentOfMapOrder ==
    (pKind \in {"package.json", "package-lock.json", "pnpm-lock.yaml"} /\ pOut # Nil) =>
        \A op \in Orders(1..Len(pDoc.packages.val)),
           od \in Orders(1..Len(pDoc.dependencies.val)) :
            SeqToSet(ParserOutput(RangedDoc(pDoc, op, od)).packages) = SeqToSet(pOut.packages)

(***************************************************************************)
(* SpecStrip: one stripPnpmPeerDepSuffix call.  Init draws a version, any  *)
(* string of up to MaxVersionLen symbols or a pre-release version with an  *)
(* underscore, and the peer decoration that follows it.                    *)
(***************************************************************************)
MaxVersionLen == 3

VersionAlphabet == {"1", "b", "_", "@", "(", ")"}

PreReleaseVersions == {<<"1", "-", "b", "_", "1">>, <<"1", "_", "b">>}

StripInputs ==
    [version : StringsOver(VersionAlphabet, 1, MaxVersionLen) \cup PreReleaseVersions,
     decoration : KeyDecorations]

InitStrip ==
    /\ pKind = "pnpm-version"
    /\ pDoc \in StripInputs
    /\ pIncludeDev = FALSE
    /\ pOut = Nil
    /\ IdleDB
    /\ IdleCSV
    /\ IdleLoad
    /\ IdleScan
    /\ IdleYarn
    /\ IdleRun

RunStripPnpmPeerDepSuffix ==
    /\ pKind = "pnpm-version"
    /\ pOut = Nil
    /\ pOut' = [version |-> stripPnpmPeerDepSuffix(pDoc.version \o pDoc.decoration)]
    /\ UNCHANGED <<pKind, pDoc, pIncludeDev, notParseVars>>

NextStrip == RunStripPnpmPeerDepSuffix

SpecStrip == InitStrip /\ [][NextStrip]_vars

\* Does s hold an "@" somewhere after an underscore?
AtAfterUnderscore(s) ==
    \E i, j \in 1..Len(s) : i < j /\ s[i] = "_" /\ s[j] = "@"

\* C26: a version with underscores but no later "@" comes back unchanged; a
\* pre-release version with an underscore followed by an underscore-joined or
\* parenthesised peer decoration comes back as exactly that version; and the
\* result is always a non-empty prefix of the input.
C26_OnlyPeerDecorationStripped ==
    (pKind = "pnpm-version" /\ pOut # Nil) =>
        LET input == pDoc.version \o pDoc.decoration
        IN  /\ (Contains(input, <<"_">>) /\ ~AtAfterUnderscore(input)) => pOut.version = input
            /\ (pDoc.version \in PreReleaseVersions /\ pDoc.decoration # EmptyStr) =>
                    pOut.version = pDoc.version
            /\ pOut.version # EmptyStr
            /\ HasPrefix(input, pOut.version)

(***************************************************************************)
(* SpecClean: cleanVersion applied to a version range, as the manifest     *)
(* loops of ParsePackageJSON apply it.  Init draws the range, any string   *)
(* of up to MaxRangeLen symbols or an interval; the action is the call.    *)
(***************************************************************************)
MaxRangeLen == 3

RangeAlphabet == {"^", "~", ">", "<", "=", " ", "1", "2"}

IntervalRanges == {<<"1", " ", "-", " ", "2">>, <<">", "=", "1", " ", "<", "2">>}

CleanInputs == [version : StringsOver(RangeAlphabet, 0, MaxRangeLen) \cup IntervalRanges]

InitClean ==
    /\ pKind = "range"
    /\ pDoc \in CleanInputs
    /\ pIncludeDev = FALSE
    /\ pOut = Nil
    /\ IdleDB
    /\ IdleCSV
    /\ IdleLoad
    /\ IdleScan
    /\ IdleYarn
    /\ IdleRun

RunCleanVersion ==
    /\ pKind = "range"
    /\ pOut = Nil
    /\ pOut' = [version |-> cleanVersion(pDoc.version)]
    /\ UNCHANGED <<pKind, pDoc, pIncludeDev, notParseVars>>

NextClean == RunCleanVersion

SpecClean == InitClean /\ [][NextClean]_vars

RangeOperatorStart == {"^", "~", ">", "<", "="}

\* C28: the result of cleanVersion never begins with a range operator or
\* whitespace, an interval a - b gives its lower bound a, and cleanVersion
\* applied to its own result changes nothing.
C28_CleanVersionStripsOperators ==
    (pKind = "range" /\ pOut # Nil) =>
        /\ pOut.version # EmptyStr =>
              /\ pOut.version[1] \notin RangeOperatorStart
              /\ ~IsSpace(pOut.version[1])
        /\ pDoc.version = <<"1", " ", "-", " ", "2">> => pOut.version = <<"1">>
        /\ cleanVersion(pOut.version) = pOut.version

(***************************************************************************)
(* internal/scanner/matcher.go: Scanner.ScanFiles and what it calls.       *)
(*                                                                         *)
(* A file path is a sequence of symbols chosen so that the substrings the  *)
(* code tests for ("package.json", "package-lock", "/") are made of whole  *)
(* symbols: <<"apps", "/", "package", ".json">>, <<"package", "-lock",     *)
(* ".json">>.  A script command is a sequence of symbols in which each     *)
(* malicious pattern is one symbol.                                        *)
(***************************************************************************)
PackageFile(repoName, path, content) ==
    [RepoName |-> repoName, Path |-> path, Content |-> content]

NewScanner(d, includeDev) == [db |-> d, includeDev |-> includeDev]

RECURSIVE Flatten(_)
Flatten(seqs) == IF seqs = <<>> THEN <<>> ELSE Head(seqs) \o Flatten(Tail(seqs))

RECURSIVE StripTrailingSlashes(_)
StripTrailingSlashes(p) ==
    IF p # EmptyStr /\ p[Len(p)] = "/"
    THEN StripTrailingSlashes(SubSeq(p, 1, Len(p) - 1))
    ELSE p

\* path.Base
Base(p) ==
    IF p = EmptyStr THEN <<".">>
    ELSE LET q == StripTrailingSlashes(p)
             i == LastIndex(q, Slash)
         IN  IF q = EmptyStr THEN Slash
             ELSE IF i >= 0 THEN SubSeq(q, i + 2, Len(q))
             ELSE q

PackageJSONName == <<"package", ".json">>

PackageLockName == <<"package", "-lock", ".json">>

parseFile(file, includeDev) ==
    LET filename == Base(file.Path)
    IN  IF filename = PackageJSONName THEN ParsePackageJSON(file.Content, includeDev)
        ELSE IF filename = PackageLockName THEN ParsePackageLock(file.Content, includeDev)
        ELSE [packages |-> <<>>, err |-> Nil]

MaliciousScriptPatterns == <<"node bundle.js", "setup_bun.js", "bun_environment.js">>

LifecycleScripts ==
    <<"preinstall", "install", "postinstall", "preuninstall", "uninstall",
      "postuninstall", "prepublish", "preprepare", "prepare", "postprepare">>

\* extractScripts: the decoded scripts field, or Nil (Go's nil map) when the
\* content does not decode or has no scripts.
extractScripts(content) ==
    IF ~content.valid \/ ~DecodesAsStrings(content.scripts) THEN Nil
    ELSE IF content.scripts.kind = "absent" THEN Nil
    ELSE content.scripts

MaliciousScript(file, scriptName, command, pattern) ==
    [FilePath |-> file.Path, RepoName |-> file.RepoName, ScriptName |-> scriptName,
     Command |-> command, Pattern |-> pattern]

\* The findings of the pattern loop for one script of one file.
PatternFindings(file, scriptName, command) ==
    Flatten([k \in 1..Len(MaliciousScriptPatterns) |->
                IF Contains(command, <<MaliciousScriptPatterns[k]>>)
                THEN <<MaliciousScript(file, scriptName, command, MaliciousScriptPatterns[k])>>
                ELSE <<>>])

\* The findings of the lifecycle-script loop for one file.
FileScriptFindings(file) ==
    LET decoded == extractScripts(file.Content)
        scripts == decoded.val
    IN  IF ~HasSuffix(file.Path, PackageJSONName) \/ Contains(file.Path, <<"package", "-lock">>)
        THEN <<>>
        ELSE IF decoded = Nil THEN <<>>
        ELSE Flatten([k \in 1..Len(LifecycleScripts) |->
                LET at == {i \in 1..Len(scripts) : scripts[i][1] = LifecycleScripts[k]}
                IN  IF at = {} THEN <<>>
                    ELSE PatternFindings(file, LifecycleScripts[k],
                                         scripts[CHOOSE i \in at : TRUE][2])])

CheckPackageScripts(fs) == Flatten([i \in 1..Len(fs) |-> FileScriptFindings(fs[i])])

VulnerablePackage(pkg, vulnEntry, file) ==
    [Package |-> pkg, VulnEntry |-> vulnEntry, FilePath |-> file.Path,
     RepoName |-> file.RepoName]

\* What the file loop of ScanFiles accumulates.
NoScan == [seen |-> {}, TotalPackages |-> 0, VulnerablePackages |-> <<>>]

\* A wrong package step: a package is reported when the database knows its
\* name, whatever the version.
ScanPackageStepNameOnly(st, pkg, file, d) ==
    LET key == pkg.Name \o <<"@">> \o pkg.Version
        counted == IF key \in st.seen THEN st
                   ELSE [st EXCEPT !.seen = @ \cup {key}, !.TotalPackages = @ + 1]
    IN  IF pkg.Name \in DOMAIN d.byName
        THEN [counted EXCEPT !.VulnerablePackages =
                                Append(@, VulnerablePackage(pkg, d.byName[pkg.Name][1], file))]
        ELSE counted

\* A wrong package step: every record is counted, seen before or not.
ScanPackageStepCountsAll(st, pkg, file, d) ==
    LET counted == [st EXCEPT !.TotalPackages = @ + 1]
        vulnEntry == Check(d, pkg.Name, pkg.Version)
    IN  IF vulnEntry # Nil
        THEN [counted EXCEPT !.VulnerablePackages =
                                Append(@, VulnerablePackage(pkg, vulnEntry, file))]
        ELSE counted

\* The body of the package loop of ScanFiles.
ScanPackageStep(st, pkg, file, d) ==
    LET key == pkg.Name \o <<"@">> \o pkg.Version
        counted == IF key \in st.seen THEN st
                   ELSE [st EXCEPT !.seen = @ \cup {key}, !.TotalPackages = @ + 1]
        vulnEntry == Check(d, pkg.Name, pkg.Version)
    IN  IF vulnEntry # Nil
        THEN [counted EXCEPT !.VulnerablePackages =
                                Append(@, VulnerablePackage(pkg, vulnEntry, file))]
        ELSE counted

RECURSIVE ScanPackagesFrom(_, _, _, _, _)
ScanPackagesFrom(packages, i, file, d, st) ==
    IF i > Len(packages) THEN st
    ELSE ScanPackagesFrom(packages, i + 1, file, d, ScanPackageStep(st, packages[i], file, d))

\* A wrong file loop: the first file that fails to parse ends the loop.
RECURSIVE ScanLoopStopsAtError(_, _, _, _)
ScanLoopStopsAtError(fs, s, i, st) ==
    IF i > Len(fs) THEN st
    ELSE LET parsed == parseFile(fs[i], s.includeDev)
         IN  IF parsed.err # Nil THEN st
             ELSE ScanLoopStopsAtError(fs, s, i + 1,
                                       ScanPackagesFrom(parsed.packages, 1, fs[i], s.db, st))

\* The file loop of ScanFiles from file i on.
RECURSIVE ScanLoop(_, _, _, _)
ScanLoop(fs, s, i, st) ==
    IF i > Len(fs) THEN st
    ELSE LET parsed == parseFile(fs[i], s.includeDev)
         IN  IF parsed.err # Nil THEN ScanLoop(fs, s, i + 1, st)
             ELSE ScanLoop(fs, s, i + 1,
                           ScanPackagesFrom(parsed.packages, 1, fs[i], s.db, st))

RepoScanResult(repoName, totalPackages, vulnerable, scripts, filesScanned) ==
    [RepoName |-> repoName, TotalPackages |-> totalPackages,
     VulnerablePackages |-> vulnerable, MaliciousScripts |-> scripts,
     FilesScanned |-> filesScanned]

ScanFiles(s, fs) ==
    IF Len(fs) = 0 THEN RepoScanResult("", 0, <<>>, <<>>, 0)
    ELSE LET st == ScanLoop(fs, s, 1, NoScan)
         IN  RepoScanResult(fs[1].RepoName, st.TotalPackages, st.VulnerablePackages,
                            CheckPackageScripts(fs), Len(fs))


(***************************************************************************)
(* SpecScan: one ScanFiles call.  Init draws the file list and the         *)
(* includeDev flag of the scanner; the database is fixed.                  *)
(***************************************************************************)
MaxFiles == 2

\* The database of the scans: v@1 and d@1 are compromised.
ScanDB ==
    AddAll(NewVulnDB, <<VulnEntry(<<"v">>, <<"1">>, <<"1">>),
                        VulnEntry(<<"d">>, <<"1">>, <<"1">>)>>)

Decl(field, name, range) == [field |-> field, name |-> name, range |-> range]

\* v in range ^1 and the development dependency d, with a malicious postinstall
InfectedManifest ==
    ManifestOf(<<Decl(1, <<"v">>, <<"^", "1">>), Decl(2, <<"d">>, <<"1">>)>>,
               StringMap(<<<<"postinstall", <<"node bundle.js">>>>>>))

\* v at a version the database does not list, v at a listed one as a peer
\* dependency, and a bundle.js call in a script that is no lifecycle script
MixedManifest ==
    ManifestOf(<<Decl(1, <<"v">>, <<"2">>), Decl(1, <<"s">>, <<"1">>),
                 Decl(4, <<"v">>, <<"1">>)>>,
               StringMap(<<<<"test", <<"node bundle.js">>>>>>))

\* "dependencies" is not a mapping; the scripts hold two patterns
MistypedManifest ==
    Document(TRUE, OtherValue, Absent, Absent, Absent, Absent,
             StringMap(<<<<"preinstall", <<"node ", "setup_bun.js", " && ", "bun_environment.js">>>>,
                         <<"install", <<"make">>>>>>))

\* v declared twice at the compromised version: as a dependency in range ^1
\* and as a peer dependency
DoubledManifest ==
    ManifestOf(<<Decl(1, <<"v">>, <<"^", "1">>), Decl(4, <<"v">>, <<"1">>)>>, Absent)

\* A lockfile that also carries a scripts mapping with an infected hook
InfectedLock ==
    [LockOf(<<<<<<"node_modules", "/", "v">>, LockEntry(<<"1">>, FALSE, <<>>)>>,
              <<<<"node_modules", "/", "s">>, LockEntry(<<"1">>, FALSE, <<>>)>>>>, <<>>)
        EXCEPT !.scripts = StringMap(<<<<"postinstall", <<"node bundle.js">>>>>>)]

ScanFileSet ==
    {PackageFile("r1", <<"package", ".json">>, InfectedManifest),
     PackageFile("r2", <<"apps", "/", "package", ".json">>, MixedManifest),
     PackageFile("r1", <<"package", ".json">>, NotJSON),
     PackageFile("r2", <<"package", ".json">>, MistypedManifest),
     PackageFile("r1", <<"package", "-lock", ".json">>, InfectedLock),
     PackageFile("r1", <<"npm-shrinkwrap", ".json">>, InfectedLock),
     PackageFile("r2", <<"package", "-lock", ".json">>, NotJSON),
     PackageFile("r1", <<"package", "-lock", "-lint", "/", "package", ".json">>,
                 InfectedManifest),
     PackageFile("r2", <<"my", "package", ".json">>, InfectedManifest),
     PackageFile("r1", <<"lib", "/", "package", ".json">>, DoubledManifest)}

InitScan ==
    /\ scanner \in {NewScanner(ScanDB, includeDev) : includeDev \in BOOLEAN}
    /\ files \in UNION {[1..n -> ScanFileSet] : n \in 0..MaxFiles}
    /\ result = Nil
    /\ IdleDB
    /\ IdleCSV
    /\ IdleLoad
    /\ IdleParse
    /\ IdleYarn
    /\ IdleRun

RunScanFiles ==
    /\ result = Nil
    /\ result' = ScanFiles(scanner, files)
    /\ UNCHANGED <<scanner, files, notScanVars>>

NextScan == RunScanFiles

SpecScan == InitScan /\ [][NextScan]_vars

\* Did the scanner's parse of the file return without an error?
Parses(file) == parseFile(file, scanner.includeDev).err = Nil

\* The findings the contract asks of one file: one per extracted record the
\* database's lookup knows, in extraction order.
FindingsOwed(file, packages) ==
    LET hits == SelectSeq(packages,
                          LAMBDA r : Check(scanner.db, r.Name, r.Version) # Nil)
    IN  [k \in 1..Len(hits) |->
            [Package |-> hits[k],
             VulnEntry |-> Check(scanner.db, hits[k].Name, hits[k].Version),
             FilePath |-> file.Path,
             RepoName |-> file.RepoName]]

\* C2: for every file that parses and every record r extracted from it,
\* ScanFiles appends a finding for r exactly when Check(r.Name, r.Version)
\* succeeds, and the finding carries r, the matched entry and the path and
\* repository name of r's file.
C2_FindingIffLookupSucceeds ==
    result # Nil =>
        result.VulnerablePackages =
            Flatten([i \in 1..Len(files) |->
                        IF Parses(files[i])
                        THEN FindingsOwed(files[i],
                                          parseFile(files[i], scanner.includeDev).packages)
                        ELSE <<>>])

C2_Witness ==
    /\ result # Nil
    /\ Len(files) = 2
    /\ files[1].RepoName # files[2].RepoName
    /\ \E i, j \in 1..Len(result.VulnerablePackages) :
            result.VulnerablePackages[i].RepoName # result.VulnerablePackages[j].RepoName
    /\ \E r \in {parseFile(files[2], scanner.includeDev).packages[k] :
                    k \in 1..Len(parseFile(files[2], scanner.includeDev).packages)} :
            Check(scanner.db, r.Name, r.Version) = Nil

ShrinkwrapName == <<"npm-shrinkwrap", ".json">>

\* The records the named grammar extracts from a file of a recognized name.
GrammarRecords(file) ==
    LET out == IF Base(file.Path) = PackageJSONName
               THEN ParsePackageJSON(file.Content, scanner.includeDev)
               ELSE ParsePackageLock(file.Content, scanner.includeDev)
    IN  IF out.err = Nil THEN out.packages ELSE <<>>

\* C3: a file named package.json, package-lock.json or npm-shrinkwrap.json
\* is parsed by the grammar its base name selects (the two lockfile names by
\* the same one), and every vulnerable package it lists produces a finding.
C3_EveryRecognizedNameScanned ==
    result # Nil =>
        \A i \in 1..Len(files) :
            Base(files[i].Path) \in {PackageJSONName, PackageLockName, ShrinkwrapName} =>
                \A k \in 1..Len(FindingsOwed(files[i], GrammarRecords(files[i]))) :
                    \E j \in 1..Len(result.VulnerablePackages) :
                        result.VulnerablePackages[j]
                            = FindingsOwed(files[i], GrammarRecords(files[i]))[k]

\* The file list without the files whose parse fails.
ParsingFiles == SelectSeq(files, LAMBDA f : Parses(f))

\* C8 as stated: the vulnerable findings, the malicious-script findings and
\* the unique-package count are those of the scan of the list without the
\* files that fail to parse.
C8_FailingFileAsIfAbsent ==
    result # Nil =>
        LET ref == ScanFiles(scanner, ParsingFiles)
        IN  /\ result.VulnerablePackages = ref.VulnerablePackages
            /\ result.MaliciousScripts = ref.MaliciousScripts
            /\ result.TotalPackages = ref.TotalPackages

\* The file list without the failing files whose scripts cannot be decoded
\* either.
ScriptBearingFiles ==
    SelectSeq(files, LAMBDA f : Parses(f) \/ extractScripts(f.Content) # Nil)

\* C8, amended: a file that fails to parse contributes no record and no
\* vulnerable finding and does not end the scan; the vulnerable findings and
\* the unique-package count are those of the list without the failing files,
\* and the malicious-script findings are those of the list without the
\* failing files whose scripts mapping does not decode either.
C8_FailingFileKeepsScripts ==
    result # Nil =>
        LET ref == ScanFiles(scanner, ParsingFiles)
        IN  /\ result.VulnerablePackages = ref.VulnerablePackages
            /\ result.TotalPackages = ref.TotalPackages
            /\ result.MaliciousScripts = ScanFiles(scanner, ScriptBearingFiles).MaliciousScripts

C8_Witness ==
    /\ result # Nil
    /\ Len(files) = 2
    /\ ~Parses(files[1])
    /\ extractScripts(files[1].Content) = Nil
    /\ Parses(files[2])
    /\ result.VulnerablePackages # <<>>
    /\ result.MaliciousScripts # <<>>

\* The triples (position of a manifest in the file list, lifecycle hook of
\* its scripts mapping, pattern contained in that hook's command).
ScriptTriples ==
    {t \in (1..Len(files)) \X SeqToSet(LifecycleScripts) \X SeqToSet(MaliciousScriptPatterns) :
        /\ Base(files[t[1]].Path) = PackageJSONName
        /\ extractScripts(files[t[1]].Content) # Nil
        /\ \E j \in 1..Len(extractScripts(files[t[1]].Content).val) :
              /\ extractScripts(files[t[1]].Content).val[j][1] = t[2]
              /\ Contains(extractScripts(files[t[1]].Content).val[j][2], <<t[3]>>)}

\* The finding a triple asks for.
TripleFinding(t) ==
    LET scripts == extractScripts(files[t[1]].Content).val
        j       == CHOOSE j \in 1..Len(scripts) : scripts[j][1] = t[2]
    IN  MaliciousScript(files[t[1]], t[2], scripts[j][2], t[3])

\* C20: the malicious-script findings are exactly one per triple (manifest
\* file, lifecycle hook present in its scripts mapping, pattern contained in
\* the hook's command), each naming the file, the hook, the command and the
\* pattern, and nothing else.
C20_OneFindingPerTriple ==
    result # Nil =>
        /\ \A k \in 1..Len(result.MaliciousScripts) :
              \E t \in ScriptTriples : result.MaliciousScripts[k] = TripleFinding(t)
        /\ \A t \in ScriptTriples :
              Cardinality({k \in 1..Len(result.MaliciousScripts) :
                              result.MaliciousScripts[k] = TripleFinding(t)})
                = Cardinality({u \in ScriptTriples : TripleFinding(u) = TripleFinding(t)})

\* The records the scanner extracts from the file at position i.
RecordsOf(i) ==
    IF Parses(files[i]) THEN parseFile(files[i], scanner.includeDev).packages ELSE <<>>

\* Does the file at position i list the package name@version?
Lists(i, name, version) ==
    \E k \in 1..Len(RecordsOf(i)) :
        RecordsOf(i)[k].Name = name /\ RecordsOf(i)[k].Version = version

\* C21: for every file and every vulnerable name@version it lists, the
\* result holds exactly one finding for that package in that file: one per
\* listed position of the file, never two from one file.
C21_OneFindingPerFile ==
    result # Nil =>
        \A i \in 1..Len(files) : \A k \in 1..Len(RecordsOf(i)) :
            LET name    == RecordsOf(i)[k].Name
                version == RecordsOf(i)[k].Version
            IN  Check(scanner.db, name, version) # Nil =>
                    Cardinality({f \in 1..Len(result.VulnerablePackages) :
                        /\ result.VulnerablePackages[f].FilePath = files[i].Path
                        /\ result.VulnerablePackages[f].RepoName = files[i].RepoName
                        /\ result.VulnerablePackages[f].Package.Name = name
                        /\ result.VulnerablePackages[f].Package.Version = version})
                    = Cardinality({j \in 1..Len(files) :
                        /\ files[j].Path = files[i].Path
                        /\ files[j].RepoName = files[i].RepoName
                        /\ Lists(j, name, version)})

\* The name@version keys of the records of the successfully parsed files.
ExtractedKeys ==
    UNION {{RecordsOf(i)[k].Name \o <<"@">> \o RecordsOf(i)[k].Version :
                k \in 1..Len(RecordsOf(i))} : i \in 1..Len(files)}

\* The most records a file of ScanFileSet yields.
MaxFileRecords == 3

\* The records recs of a file in the order r of the positions
\* 1..MaxFileRecords, of which those beyond the file's records are left out.
Reordered(recs, r) ==
    LET kept == SelectSeq(r, LAMBDA x : x <= Len(recs))
    IN  [m \in 1..Len(kept) |-> recs[kept[m]]]

\* The count the package loop reaches when the files, whose records are
\* recs[i], come in the order o and the records of every file in the order r.
CountInOrder(recs, o, r) ==
    ScanPackagesFrom(Flatten([k \in 1..Len(o) |-> Reordered(recs[o[k]], r)]),
                     1, files[1], scanner.db, NoScan).TotalPackages

\* C22: TotalPackages is the number of distinct name@version keys among the
\* records of the files that parse, and the package loop reaches the same
\* count for every order of the files and of the records within each file.
C22_TotalPackagesCountsDistinct ==
    result # Nil =>
        /\ result.TotalPackages = Cardinality(ExtractedKeys)
        /\ Len(files) > 0 =>
              LET recs == [i \in 1..Len(files) |-> RecordsOf(i)]
              IN  \A o \in Orders(1..Len(files)), r \in Orders(1..MaxFileRecords) :
                      CountInOrder(recs, o, r) = result.TotalPackages

\* Two parsed files share a package, a third package is listed once.
C22_Witness ==
    /\ result # Nil
    /\ Len(files) = 2
    /\ \E k \in ExtractedKeys : \A i \in 1..2 :
            \E m \in 1..Len(RecordsOf(i)) :
                RecordsOf(i)[m].Name \o <<"@">> \o RecordsOf(i)[m].Version = k
    /\ result.TotalPackages >= 2
    /\ result.TotalPackages < Len(RecordsOf(1)) + Len(RecordsOf(2))

\* Does the scripts mapping of the file hold a lifecycle hook whose command
\* contains a known-malicious pattern?
HoldsInfectedHook(file) ==
    /\ extractScripts(file.Content) # Nil
    /\ \E j \in 1..Len(extractScripts(file.Content).val) :
          /\ extractScripts(file.Content).val[j][1] \in SeqToSet(LifecycleScripts)
          /\ \E k \in 1..Len(MaliciousScriptPatterns) :
                Contains(extractScripts(file.Content).val[j][2], <<MaliciousScriptPatterns[k]>>)

\* Does the result hold a malicious-script finding for the file?
ScriptFindingFor(file) ==
    \E k \in 1..Len(result.MaliciousScripts) :
        /\ result.MaliciousScripts[k].FilePath = file.Path
        /\ result.MaliciousScripts[k].RepoName = file.RepoName

\* C30: the lifecycle-script detector examines exactly the manifest files.  A
\* file whose scripts hold an infected lifecycle hook gets a finding if and
\* only if its base name is package.json, whatever its directory; a lockfile
\* never gets one.
C30_ExactlyManifestsChecked ==
    result # Nil =>
        \A i \in 1..Len(files) :
            HoldsInfectedHook(files[i]) =>
                (ScriptFindingFor(files[i]) <=> Base(files[i].Path) = PackageJSONName)

(***************************************************************************)
(* run: the loop over the repositories, its cancellation and the summary.  *)
(* The GitHub client's FindPackageFiles, FindMaliciousWorkflows and        *)
(* FindMaliciousBranches are calls that return a list or an error; the     *)
(* interrupt handler is a goroutine that cancels ctx at any moment.        *)
(***************************************************************************)
Repository(fullName, archived) == [FullName |-> fullName, Archived |-> archived]

WorkflowFile(repoName, path, content) ==
    [RepoName |-> repoName, Path |-> path, Content |-> content]

Branch(name, repoName) == [Name |-> name, RepoName |-> repoName]

MaliciousWorkflowPattern == "echo ${{ github.event.discussion.body }}"

MaliciousWorkflow(wf) ==
    [FilePath |-> wf.Path, RepoName |-> wf.RepoName, Pattern |-> MaliciousWorkflowPattern]

CheckWorkflows(workflows) ==
    LET hit == SelectSeq(workflows, LAMBDA wf : Contains(wf.Content, <<MaliciousWorkflowPattern>>))
    IN  [k \in 1..Len(hit) |-> MaliciousWorkflow(hit[k])]

MaliciousBranch(branch) == [RepoName |-> branch.RepoName, BranchName |-> branch.Name]

\* The result appended when FindPackageFiles fails.
ErrorResult(repo, err) ==
    [RepoName |-> repo.FullName, TotalPackages |-> 0, VulnerablePackages |-> <<>>,
     MaliciousScripts |-> <<>>, FilesScanned |-> 0, MaliciousWorkflows |-> <<>>,
     MaliciousBranches |-> <<>>, Error |-> err]

\* The result of one repository: ScanFiles, then the workflow findings when
\* there are workflows, then one MaliciousBranch per malicious branch.
RepoResult(scan, fs, workflows, maliciousBranches) ==
    ScanFiles(scan, fs) @@
        [MaliciousWorkflows |-> IF Len(workflows) > 0 THEN CheckWorkflows(workflows) ELSE <<>>,
         MaliciousBranches  |-> [k \in 1..Len(maliciousBranches) |->
                                    MaliciousBranch(maliciousBranches[k])],
         Error |-> Nil]

(***************************************************************************)
(* SpecRun: the repository loop on up to MaxRepos repositories.            *)
(***************************************************************************)
MaxRepos == 2

RunNames == {"o/r1", "o/r2"}

RunRepos ==
    UNION {[1..n -> {Repository(name, archived) : name \in RunNames,
                                                  archived \in BOOLEAN}]
           : n \in 1..MaxRepos}

\* What the client's calls may return: <<list, error>>.
PackageFilesFor(repo) ==
    {<<<<>>, [msg |-> "failed to get tree"]>>, <<<<>>, Nil>>,
     <<<<PackageFile(repo.FullName, <<"package", ".json">>, InfectedManifest)>>, Nil>>}

WorkflowsFor(repo) ==
    {<<<<>>, [msg |-> "failed to list workflows"]>>, <<<<>>, Nil>>,
     <<<<WorkflowFile(repo.FullName, <<".github", "/", "workflows", "/", "d.yml">>,
                      <<"run: ", MaliciousWorkflowPattern>>)>>, Nil>>}

BranchesFor(repo) ==
    {<<<<>>, [msg |-> "failed to list branches"]>>, <<<<>>, Nil>>,
     <<<<Branch("shai-hulud", repo.FullName)>>, Nil>>}

RunScanner == NewScanner(ScanDB, TRUE)

\* RepoResult for every repository, file list, workflow list and branch
\* list the loop can meet, computed once.
RepoResults ==
    [name \in RunNames |->
        LET repo == Repository(name, FALSE)
        IN  [fs \in {got[1] : got \in PackageFilesFor(repo)} |->
                [wf \in {got[1] : got \in WorkflowsFor(repo)} |->
                    [br \in {got[1] : got \in BranchesFor(repo)} |->
                        RepoResult(RunScanner, fs, wf, br)]]]]

InitRun ==
    /\ runPc = "loop"
    /\ repos \in RunRepos
    /\ runI = 0
    /\ results = <<>>
    /\ repoFiles = Nil
    /\ cancelled = FALSE
    /\ observed = FALSE
    /\ summary = Nil
    /\ IdleDB
    /\ IdleCSV
    /\ IdleLoad
    /\ IdleParse
    /\ IdleScan
    /\ IdleYarn

\* The interrupt handler's goroutine: cancel().
Cancel ==
    /\ runPc \in {"loop", "scan"}
    /\ ~cancelled
    /\ cancelled' = TRUE
    /\ UNCHANGED <<runPc, repos, runI, results, repoFiles, observed, summary, notRunVars>>

\* The select at the head of an iteration takes the ctx.Done() case.
RunObserveCancel ==
    /\ runPc = "loop"
    /\ runI < Len(repos)
    /\ cancelled
    /\ observed' = TRUE
    /\ runPc' = "summary"
    /\ UNCHANGED <<repos, runI, results, repoFiles, cancelled, summary, notRunVars>>

\* "Skip archived repositories".
RunSkipArchived ==
    /\ runPc = "loop"
    /\ runI < Len(repos)
    /\ ~cancelled
    /\ repos[runI + 1].Archived
    /\ runI' = runI + 1
    /\ UNCHANGED <<runPc, repos, results, repoFiles, cancelled, observed, summary, notRunVars>>

\* "Find package files": on an error the repository's result is the error.
RunFindPackageFiles ==
    /\ runPc = "loop"
    /\ runI < Len(repos)
    /\ ~cancelled
    /\ ~repos[runI + 1].Archived
    /\ \E got \in PackageFilesFor(repos[runI + 1]) :
          IF got[2] # Nil
          THEN /\ results' = Append(results, ErrorResult(repos[runI + 1], got[2]))
               /\ runI' = runI + 1
               /\ UNCHANGED <<runPc, repoFiles>>
          ELSE /\ repoFiles' = [files |-> got[1]]
               /\ runPc' = "scan"
               /\ UNCHANGED <<results, runI>>
    /\ UNCHANGED <<repos, cancelled, observed, summary, notRunVars>>

\* The rest of the iteration: workflows, branches, ScanFiles, the append.
RunScanRepo ==
    /\ runPc = "scan"
    /\ \E wf \in WorkflowsFor(repos[runI + 1]), br \in BranchesFor(repos[runI + 1]) :
          results' = Append(results,
                            RepoResults[repos[runI + 1].FullName][repoFiles.files][wf[1]][br[1]])
    /\ runI' = runI + 1
    /\ repoFiles' = Nil
    /\ runPc' = "loop"
    /\ UNCHANGED <<repos, cancelled, observed, summary, notRunVars>>

\* The range over repos is exhausted.
RunExhausted ==
    /\ runPc = "loop"
    /\ runI = Len(repos)
    /\ runPc' = "summary"
    /\ UNCHANGED <<repos, runI, results, repoFiles, cancelled, observed, summary, notRunVars>>

\* A wrong summary: an interrupted run reports nothing.
RunSummaryDropsPartial ==
    /\ runPc = "summary"
    /\ summary' = IF observed THEN <<>> ELSE results
    /\ runPc' = "done"
    /\ UNCHANGED <<repos, runI, results, repoFiles, cancelled, observed, notRunVars>>

\* summary: rep.ReportSummary(results, ...).
RunSummary ==
    /\ runPc = "summary"
    /\ summary' = results
    /\ runPc' = "done"
    /\ UNCHANGED <<repos, runI, results, repoFiles, cancelled, observed, notRunVars>>

RunStep ==
    \/ RunObserveCancel
    \/ RunSkipArchived
    \/ RunFindPackageFiles
    \/ RunScanRepo
    \/ RunExhausted
    \/ RunSummary

NextRun == Cancel \/ RunStep

\* The goroutine of run keeps running and the client's calls return.
SpecRun == InitRun /\ [][NextRun]_vars /\ WF_vars(RunStep)

\* C23: the loop takes the cancellation only at the head of an iteration;
\* from then on no repository is scanned and no result is appended; results
\* only ever grows at its end; the summary is given exactly the results
\* appended; and the summary is eventually produced in every run.
C23_CancelBetweenRepositories ==
    /\ [][(observed' /\ ~observed) => (runPc = "loop" /\ repoFiles = Nil)]_vars
    /\ [][observed => (results' = results /\ runI' = runI /\ runPc' # "scan")]_vars
    /\ [][Len(results') >= Len(results) /\ SubSeq(results', 1, Len(results)) = results]_vars
    /\ [](runPc = "done" => summary = results)
    /\ <>(runPc = "done")

\* An interrupted run that reports the one result it had, with a repository
\* left unscanned.
C23_Witness ==
    /\ runPc = "done"
    /\ observed
    /\ Len(repos) = 2
    /\ runI = 1
    /\ Len(summary) = 1
    /\ Len(summary[1].VulnerablePackages) > 0
====
